---- MODULE Spec2Model ----
(***************************************************************************)
(* State-machine model of the swaptrade "counter" contract: the balance    *)
(* ledger, the AMM swap engine, the tier / fee model, the rate limiter,    *)
(* the LP share ledger and the batch executor.                             *)
(*                                                                         *)
(* A contract call that panics is reverted by the host: the call leaves    *)
(* no trace in storage.  Such a call is modelled as an action that only    *)
(* writes the history variable "last".                                     *)
(***************************************************************************)
EXTENDS Integers, Sequences, FiniteSets, TLC

(* ------------------------------ bounds -------------------------------- *)

\* number of contract calls (clock steps included) in one behaviour
MaxSteps == 4
\* the clock never runs past this timestamp
MaxTime == 3600

(* ------------------------- program constants --------------------------- *)

LP_FEE_BPS == 30
STALE_THRESHOLD_SECONDS == 600
MAX_BATCH_SIZE == 10
BPS_DENOM == 10000
HOUR == 3600
DAY == 86400
U32_MAX == 2147483647
DEFAULT_MAX_SLIP == 10000
\* Prices are 18-decimal fixed point in the contract.  The model counts a
\* price in units of 10^15, so that PRECISION (10^18) is 1000 units; every
\* price used below divides 10^6 units, which keeps the inverse quote
\* PRECISION * PRECISION / price exact in these units.
PRECISION == 1000

(* ------------------------------ domains -------------------------------- *)

Users == {"u1", "u2"}
XLM == "XLM"
USDCSIM == "USDCSIM"
\* batch.rs spells the second asset "USDC-SIM": a symbol of its own, which
\* trading.rs does not recognise
USDC_SIM == "USDC-SIM"
Tokens == {XLM, USDCSIM, USDC_SIM}
Tiers == {"Novice", "Trader", "Expert", "Whale"}
NoPrice == [set |-> FALSE, price |-> 0, timestamp |-> 0]

VARIABLES
    portfolio,   \* the Portfolio aggregate kept in instance storage
    rate,        \* persistent rate-limit counters, keyed <<user, class, window_start>>
    prices,      \* oracle quotes per ordered pair <<from, to>>
    max_slip,    \* MAX_SLIP instance entry
    now,         \* env.ledger().timestamp()
    steps,       \* calls made so far
    emergency,   \* EmergencyKey entries: Admin, Paused, FrozenUsers
    last         \* what the last call was given, found and returned

vars == <<portfolio, rate, prices, max_slip, now, steps, emergency, last>>

(* ----------------------------- arithmetic ------------------------------ *)

\* Rust integer division truncates toward zero
TruncDiv(a, b) ==
    IF a >= 0 THEN a \div b ELSE -((-a) \div b)

Min(a, b) == IF a <= b THEN a ELSE b

\* Body applied to a value that is computed once
Let(value, Body(_)) == CHOOSE result \in {Body(v) : v \in {value}} : TRUE

RECURSIVE SumOver(_, _)
SumOver(S, f) ==
    IF S = {} THEN 0
    ELSE LET x == CHOOSE y \in S : TRUE
         IN f[x] + SumOver(S \ {x}, f)

(* ------------------------------- tiers --------------------------------- *)

\* effective_fee_bps without the discounts of the higher tiers
effective_fee_bps_flat(tier) == 30

\* effective_fee_bps charging no fee
effective_fee_bps_free(tier) == 0

effective_fee_bps(tier) ==
    CASE tier = "Novice" -> 30
      [] tier = "Trader" -> 25
      [] tier = "Expert" -> 20
      [] tier = "Whale" -> 15

\* calculate_user_tier granting Expert on either threshold
calculate_user_tier_either(trade_count, volume) ==
    IF trade_count >= 200 /\ volume >= 10000 THEN "Whale"
    ELSE IF trade_count >= 50 \/ volume >= 1000 THEN "Expert"
    ELSE IF trade_count >= 10 \/ volume >= 100 THEN "Trader"
    ELSE "Novice"

calculate_user_tier(trade_count, volume) ==
    IF trade_count >= 200 /\ volume >= 10000 THEN "Whale"
    ELSE IF trade_count >= 50 /\ volume >= 1000 THEN "Expert"
    ELSE IF trade_count >= 10 \/ volume >= 100 THEN "Trader"
    ELSE "Novice"

(* ------------------------------ portfolio ------------------------------ *)

NoPosition == [present |-> FALSE, xlm_deposited |-> 0, usdc_deposited |-> 0,
               lp_tokens_minted |-> 0]

Portfolio_new ==
    [balances |-> [k \in Users \X Tokens |-> 0],
     trades |-> [u \in Users |-> 0],
     user_volumes |-> [u \in Users |-> 0],
     tiers |-> [u \in Users |-> "Novice"],
     trades_executed |-> 0,
     failed_orders |-> 0,
     total_trading_volume |-> 0,
     xlm_in_pool |-> 0,
     usdc_in_pool |-> 0,
     total_fees_collected |-> 0,
     lp_positions |-> [u \in Users |-> NoPosition],
     total_lp_tokens |-> 0,
     lp_fees_accumulated |-> 0]

\* Results of the fallible portfolio operations: ok = FALSE is a panic
Done(p) == [ok |-> TRUE, err |-> "", p |-> p]
Panic(p, msg) == [ok |-> FALSE, err |-> msg, p |-> p]

balance_of(p, token, user) == p.balances[<<user, token>>]

debit(p, token, from, amount) ==
    IF ~(amount > 0) THEN Panic(p, "Amount must be positive")
    ELSE IF ~(balance_of(p, token, from) >= amount) THEN Panic(p, "Insufficient funds")
    ELSE Done([p EXCEPT !.balances[<<from, token>>] = @ - amount])

mint(p, token, to, amount) ==
    IF ~(amount >= 0) THEN Panic(p, "Amount must be non-negative")
    ELSE Done([p EXCEPT !.balances[<<to, token>>] = @ + amount])

\* transfer_asset without its balance assertion
transfer_asset_unchecked(p, from_token, to_token, user, amount) ==
    IF ~(amount > 0) THEN Panic(p, "Amount must be positive")
    ELSE LET p1 == [p EXCEPT !.balances[<<user, from_token>>] = @ - amount]
         IN Done([p1 EXCEPT !.balances[<<user, to_token>>] = @ + amount])

\* credits the same amount it debits
transfer_asset(p, from_token, to_token, user, amount) ==
    IF ~(amount > 0) THEN Panic(p, "Amount must be positive")
    ELSE IF ~(balance_of(p, from_token, user) >= amount) THEN Panic(p, "Insufficient funds")
    ELSE LET p1 == [p EXCEPT !.balances[<<user, from_token>>] = @ - amount]
         IN Done([p1 EXCEPT !.balances[<<user, to_token>>] = @ + amount])

get_user_tier(p, user) ==
    calculate_user_tier(p.trades[user], p.user_volumes[user])

update_tier(p, user) ==
    LET new_tier == get_user_tier(p, user)
    IN IF new_tier # p.tiers[user] THEN [p EXCEPT !.tiers[user] = new_tier] ELSE p

record_trade(p, user) ==
    [p EXCEPT !.trades[user] = @ + 1, !.trades_executed = @ + 1]

update_stats_on_trade(p, user, swap_amount) ==
    [p EXCEPT !.total_trading_volume = @ + swap_amount,
              !.user_volumes[user] = @ + swap_amount]

record_transaction(p, user, from_amount) ==
    update_tier(update_stats_on_trade(record_trade(p, user), user, from_amount), user)

inc_failed_order(p) == [p EXCEPT !.failed_orders = @ + 1]

collect_fee(p, fee_amount) == [p EXCEPT !.total_fees_collected = @ + fee_amount]

add_lp_fees(p, amount) == [p EXCEPT !.lp_fees_accumulated = @ + amount]

add_pool_liquidity(p, xlm_amount, usdc_amount) ==
    [p EXCEPT !.xlm_in_pool = @ + xlm_amount, !.usdc_in_pool = @ + usdc_amount]

set_liquidity(p, asset, amount) ==
    IF asset = XLM THEN [p EXCEPT !.xlm_in_pool = amount]
    ELSE IF asset = USDCSIM THEN [p EXCEPT !.usdc_in_pool = amount]
    ELSE p

get_liquidity(p, asset) ==
    IF asset = XLM THEN p.xlm_in_pool
    ELSE IF asset = USDCSIM THEN p.usdc_in_pool
    ELSE 0

add_total_lp_tokens(p, amount) == [p EXCEPT !.total_lp_tokens = @ + amount]

\* subtract_total_lp_tokens that leaves the counter alone
subtract_total_lp_tokens_skipped(p, amount) == p

subtract_total_lp_tokens(p, amount) ==
    LET t == p.total_lp_tokens - amount
    IN [p EXCEPT !.total_lp_tokens = IF t < 0 THEN 0 ELSE t]

(* ------------------------------- oracle -------------------------------- *)

get_stored_price(pr, pair) == pr[pair]

set_stored_price(pr, pair, price, timestamp) ==
    [pr EXCEPT ![pair] = [set |-> TRUE, price |-> price, timestamp |-> timestamp]]

PriceOk(v) == [ok |-> TRUE, err |-> "", price |-> v]
PriceErr(e) == [ok |-> FALSE, err |-> e, price |-> 0]

\* get_price_with_staleness_check turning a quote away at the threshold already
get_price_with_staleness_check_at_threshold(pr, t, from, to) ==
    LET direct == get_stored_price(pr, <<from, to>>)
        reverse == get_stored_price(pr, <<to, from>>)
    IN IF direct.set
       THEN IF t - direct.timestamp >= STALE_THRESHOLD_SECONDS
            THEN PriceErr("StalePrice")
            ELSE PriceOk(direct.price)
       ELSE IF reverse.set
       THEN IF t - reverse.timestamp >= STALE_THRESHOLD_SECONDS
            THEN PriceErr("StalePrice")
            ELSE IF reverse.price = 0 THEN PriceErr("InvalidPrice")
            ELSE PriceOk((PRECISION * PRECISION) \div reverse.price)
       ELSE PriceErr("PriceNotSet")

get_price_with_staleness_check(pr, t, from, to) ==
    LET direct == get_stored_price(pr, <<from, to>>)
        reverse == get_stored_price(pr, <<to, from>>)
    IN IF direct.set
       THEN IF t - direct.timestamp > STALE_THRESHOLD_SECONDS
            THEN PriceErr("StalePrice")
            ELSE PriceOk(direct.price)
       ELSE IF reverse.set
       THEN IF t - reverse.timestamp > STALE_THRESHOLD_SECONDS
            THEN PriceErr("StalePrice")
            ELSE IF reverse.price = 0 THEN PriceErr("InvalidPrice")
            ELSE PriceOk((PRECISION * PRECISION) \div reverse.price)
       ELSE PriceErr("PriceNotSet")

(* ---------------------------- rate limiter ----------------------------- *)

RateLimitConfig_for_tier(tier) ==
    CASE tier = "Novice" -> [swaps_per_hour |-> 5, lp_ops_per_day |-> 10]
      [] tier = "Trader" -> [swaps_per_hour |-> 20, lp_ops_per_day |-> 30]
      [] tier = "Expert" -> [swaps_per_hour |-> 100, lp_ops_per_day |-> U32_MAX]
      [] tier = "Whale" -> [swaps_per_hour |-> U32_MAX, lp_ops_per_day |-> U32_MAX]

\* hourly window in which an exact multiple of the hour still belongs to the
\* window before it
TimeWindow_hourly_boundary_late(current_timestamp) ==
    [window_start |-> IF current_timestamp = 0 THEN 0
                      ELSE ((current_timestamp - 1) \div HOUR) * HOUR,
     window_duration |-> HOUR]

TimeWindow_hourly(current_timestamp) ==
    [window_start |-> (current_timestamp \div HOUR) * HOUR, window_duration |-> HOUR]

TimeWindow_daily(current_timestamp) ==
    [window_start |-> (current_timestamp \div DAY) * DAY, window_duration |-> DAY]

cooldown_ms(window, current_timestamp) ==
    LET next_window == window.window_start + window.window_duration
    IN IF current_timestamp >= next_window THEN 0
       ELSE (next_window - current_timestamp) * 1000

CounterGet(r, key) == IF key \in DOMAIN r THEN r[key] ELSE 0

CounterSet(r, key, v) ==
    [k \in DOMAIN r \cup {key} |-> IF k = key THEN v ELSE r[k]]

LimitOk == [ok |-> TRUE, used |-> 0, limit |-> 0, cooldown_ms |-> 0]

\* check_swap_limit comparing with > where the code has >=
check_swap_limit_off_by_one(r, t, user, tier) ==
    LET config == RateLimitConfig_for_tier(tier)
        window == TimeWindow_hourly(t)
        current_count == CounterGet(r, <<user, "swap", window.window_start>>)
    IN IF config.swaps_per_hour = U32_MAX THEN LimitOk
       ELSE IF current_count > config.swaps_per_hour
       THEN [ok |-> FALSE, used |-> current_count, limit |-> config.swaps_per_hour,
             cooldown_ms |-> cooldown_ms(window, t)]
       ELSE LimitOk

check_swap_limit(r, t, user, tier) ==
    LET config == RateLimitConfig_for_tier(tier)
        window == TimeWindow_hourly(t)
        current_count == CounterGet(r, <<user, "swap", window.window_start>>)
    IN IF config.swaps_per_hour = U32_MAX THEN LimitOk
       ELSE IF current_count >= config.swaps_per_hour
       THEN [ok |-> FALSE, used |-> current_count, limit |-> config.swaps_per_hour,
             cooldown_ms |-> cooldown_ms(window, t)]
       ELSE LimitOk

\* record_swap keeping one counter for all accounts
record_swap_shared(r, user, timestamp) ==
    LET start == TimeWindow_hourly(timestamp).window_start
    IN [k \in DOMAIN r \cup {<<u, "swap", start>> : u \in Users} |->
          IF k[2] = "swap" /\ k[3] = start THEN CounterGet(r, k) + 1 ELSE r[k]]

record_swap(r, user, timestamp) ==
    LET key == <<user, "swap", TimeWindow_hourly(timestamp).window_start>>
    IN CounterSet(r, key, CounterGet(r, key) + 1)

check_lp_limit(r, t, user, tier) ==
    LET config == RateLimitConfig_for_tier(tier)
        window == TimeWindow_daily(t)
        current_count == CounterGet(r, <<user, "lp_op", window.window_start>>)
    IN IF config.lp_ops_per_day = U32_MAX THEN LimitOk
       ELSE IF current_count >= config.lp_ops_per_day
       THEN [ok |-> FALSE, used |-> current_count, limit |-> config.lp_ops_per_day,
             cooldown_ms |-> cooldown_ms(window, t)]
       ELSE LimitOk

record_lp_op(r, user, timestamp) ==
    LET key == <<user, "lp_op", TimeWindow_daily(timestamp).window_start>>
    IN CounterSet(r, key, CounterGet(r, key) + 1)

(* ---------------------------- swap engine ------------------------------ *)

\* symbol_to_asset accepting every symbol
trading_symbol_to_asset_any(sym) == sym \in Tokens

\* trading.rs recognises "XLM" and "USDCSIM" only
trading_symbol_to_asset(sym) == sym \in {XLM, USDCSIM}

SwapOk(p, out) == [ok |-> TRUE, err |-> "", p |-> p, out |-> out]
SwapPanic(p, msg) == [ok |-> FALSE, err |-> msg, p |-> p, out |-> 0]

\* output of the constant-product formula with the LP fee on the input leg
amm_actual_out(reserve_in, reserve_out, amount) ==
    LET amount_in_after_fee == (amount * (BPS_DENOM - LP_FEE_BPS)) \div BPS_DENOM
    IN (reserve_out * amount_in_after_fee) \div (reserve_in + amount_in_after_fee)

amm_theoretical_out(reserve_in, reserve_out, amount) ==
    (reserve_out * amount) \div (reserve_in + amount)

\* pool_after_swap that forgets to add the input leg to its reserve
pool_after_swap_output_only(p, from, amount_in_after_fee, out_amount) ==
    IF from = XLM
    THEN set_liquidity(p, USDCSIM, p.usdc_in_pool - out_amount)
    ELSE set_liquidity(p, XLM, p.xlm_in_pool - out_amount)

\* pool_after_swap adding the output to its reserve where the code subtracts it
pool_after_swap_output_added(p, from, amount_in_after_fee, out_amount) ==
    IF from = XLM
    THEN set_liquidity(set_liquidity(p, XLM, p.xlm_in_pool + amount_in_after_fee),
                       USDCSIM, p.usdc_in_pool + out_amount)
    ELSE set_liquidity(set_liquidity(p, USDCSIM, p.usdc_in_pool + amount_in_after_fee),
                       XLM, p.xlm_in_pool + out_amount)

\* step 7 of perform_swap: the reserves after a pool-priced swap
pool_after_swap(p, from, amount_in_after_fee, out_amount) ==
    IF from = XLM
    THEN set_liquidity(set_liquidity(p, XLM, p.xlm_in_pool + amount_in_after_fee),
                       USDCSIM, p.usdc_in_pool - out_amount)
    ELSE set_liquidity(set_liquidity(p, USDCSIM, p.usdc_in_pool + amount_in_after_fee),
                       XLM, p.xlm_in_pool - out_amount)

\* perform_swap without the assertion on the output: a swap of no yield is
\* executed like any other
perform_swap_zero_yield(p, pr, slip, t, from, to, amount, user) ==
    IF ~(amount > 0) THEN SwapPanic(p, "Amount must be positive")
    ELSE IF from = to THEN SwapPanic(p, "Tokens must be different")
    ELSE IF ~trading_symbol_to_asset(from) THEN SwapPanic(p, "Invalid from token")
    ELSE IF ~trading_symbol_to_asset(to) THEN SwapPanic(p, "Invalid to token")
    ELSE
    LET quote == get_price_with_staleness_check(pr, t, from, to)
        price == IF quote.ok THEN quote.price ELSE PRECISION
        xlm_liquidity == get_liquidity(p, XLM)
        usdc_liquidity == get_liquidity(p, USDCSIM)
        reserve_in == IF from = XLM THEN xlm_liquidity ELSE usdc_liquidity
        reserve_out == IF from = XLM THEN usdc_liquidity ELSE xlm_liquidity
        pooled == reserve_in > 0 /\ reserve_out > 0
        actual_out == IF pooled THEN amm_actual_out(reserve_in, reserve_out, amount)
                      ELSE (amount * price) \div PRECISION
        fee_amount == (amount * LP_FEE_BPS) \div BPS_DENOM
        theoretical_out == IF pooled THEN amm_theoretical_out(reserve_in, reserve_out, amount)
                           ELSE amount
    IN IF ~quote.ok /\ quote.err = "StalePrice" THEN SwapPanic(p, "Oracle price is stale")
       ELSE IF ~quote.ok /\ quote.err = "InvalidPrice" THEN SwapPanic(p, "Oracle price is invalid")
       \* theoretical_out - actual_out is an unsigned subtraction: it panics
       \* with overflow checks on, and wraps to a slippage far above any u32
       \* max_slip without them; both builds end in a panic
       ELSE IF theoretical_out > 0 /\ actual_out > theoretical_out
       THEN SwapPanic(p, "Slippage exceeded")
       ELSE IF theoretical_out > 0
               /\ ((theoretical_out - actual_out) * BPS_DENOM) \div theoretical_out > slip
       THEN SwapPanic(p, "Slippage exceeded")
       ELSE LET moved == transfer_asset(p, from, to, user, amount)
            IN IF ~moved.ok THEN SwapPanic(p, moved.err)
               ELSE LET p7 == IF pooled
                              THEN pool_after_swap(moved.p, from, amount - fee_amount, actual_out)
                              ELSE moved.p
                        p8 == IF fee_amount > 0 THEN add_lp_fees(p7, fee_amount) ELSE p7
                    IN SwapOk(p8, actual_out)

perform_swap(p, pr, slip, t, from, to, amount, user) ==
    IF ~(amount > 0) THEN SwapPanic(p, "Amount must be positive")
    ELSE IF from = to THEN SwapPanic(p, "Tokens must be different")
    ELSE IF ~trading_symbol_to_asset(from) THEN SwapPanic(p, "Invalid from token")
    ELSE IF ~trading_symbol_to_asset(to) THEN SwapPanic(p, "Invalid to token")
    ELSE
    LET quote == get_price_with_staleness_check(pr, t, from, to)
        price == IF quote.ok THEN quote.price ELSE PRECISION
        xlm_liquidity == get_liquidity(p, XLM)
        usdc_liquidity == get_liquidity(p, USDCSIM)
        reserve_in == IF from = XLM THEN xlm_liquidity ELSE usdc_liquidity
        reserve_out == IF from = XLM THEN usdc_liquidity ELSE xlm_liquidity
        pooled == reserve_in > 0 /\ reserve_out > 0
        actual_out == IF pooled THEN amm_actual_out(reserve_in, reserve_out, amount)
                      ELSE (amount * price) \div PRECISION
        fee_amount == (amount * LP_FEE_BPS) \div BPS_DENOM
        theoretical_out == IF pooled THEN amm_theoretical_out(reserve_in, reserve_out, amount)
                           ELSE amount
    IN IF ~quote.ok /\ quote.err = "StalePrice" THEN SwapPanic(p, "Oracle price is stale")
       ELSE IF ~quote.ok /\ quote.err = "InvalidPrice" THEN SwapPanic(p, "Oracle price is invalid")
       ELSE IF ~(actual_out > 0) THEN SwapPanic(p, "Output amount must be positive")
       \* theoretical_out - actual_out is an unsigned subtraction: it panics
       \* with overflow checks on, and wraps to a slippage far above any u32
       \* max_slip without them; both builds end in a panic
       ELSE IF theoretical_out > 0 /\ actual_out > theoretical_out
       THEN SwapPanic(p, "Slippage exceeded")
       ELSE IF theoretical_out > 0
               /\ ((theoretical_out - actual_out) * BPS_DENOM) \div theoretical_out > slip
       THEN SwapPanic(p, "Slippage exceeded")
       ELSE LET moved == transfer_asset(p, from, to, user, amount)
            IN IF ~moved.ok THEN SwapPanic(p, moved.err)
               ELSE LET p7 == IF pooled
                              THEN pool_after_swap(moved.p, from, amount - fee_amount, actual_out)
                              ELSE moved.p
                        p8 == IF fee_amount > 0 THEN add_lp_fees(p7, fee_amount) ELSE p7
                    IN SwapOk(p8, actual_out)

(* --------------------------- LP share ledger --------------------------- *)

\* The Babylonian loop of add_liquidity: while guess != prev_guess and
\* iterations < 100.  babylonian_step is one turn of the loop (a loop that has
\* stopped stays stopped) and babylonian applies it 100 times, which is as
\* many turns as the loop can take.
babylonian_step(product, st) ==
    IF st.stopped \/ ~(st.guess # st.prev_guess /\ st.iterations < 100)
    THEN [st EXCEPT !.stopped = TRUE]
    ELSE LET next == (st.guess + product \div st.guess) \div 2
         IN IF next = 0
            THEN [guess |-> 1, prev_guess |-> st.guess, iterations |-> st.iterations,
                  stopped |-> TRUE]
            ELSE [guess |-> next, prev_guess |-> st.guess,
                  iterations |-> st.iterations + 1, stopped |-> FALSE]

RECURSIVE babylonian_turns(_, _, _)
babylonian_turns(product, st, n) ==
    IF n = 0 THEN st
    ELSE IF n = 1 THEN babylonian_step(product, st)
    ELSE Let(babylonian_turns(product, st, n \div 2),
             LAMBDA mid : babylonian_turns(product, mid, n - n \div 2))

babylonian(product) ==
    babylonian_turns(product,
        [guess |-> product, prev_guess |-> 0, iterations |-> 0, stopped |-> FALSE],
        100).guess

first_provider_tokens(xlm_amount, usdc_amount) ==
    Let(xlm_amount * usdc_amount, LAMBDA product : babylonian(product))

\* proportional_tokens taking the larger of the two shares
proportional_tokens_larger(p, xlm_amount, usdc_amount) ==
    LET current_xlm == get_liquidity(p, XLM)
        current_usdc == get_liquidity(p, USDCSIM)
        xlm_share == IF current_xlm > 0
                     THEN (xlm_amount * p.total_lp_tokens) \div current_xlm ELSE 0
        usdc_share == IF current_usdc > 0
                      THEN (usdc_amount * p.total_lp_tokens) \div current_usdc ELSE 0
    IN IF xlm_share >= usdc_share THEN xlm_share ELSE usdc_share

proportional_tokens(p, xlm_amount, usdc_amount) ==
    LET current_xlm == get_liquidity(p, XLM)
        current_usdc == get_liquidity(p, USDCSIM)
        xlm_share == IF current_xlm > 0
                     THEN (xlm_amount * p.total_lp_tokens) \div current_xlm ELSE 0
        usdc_share == IF current_usdc > 0
                      THEN (usdc_amount * p.total_lp_tokens) \div current_usdc ELSE 0
    IN Min(xlm_share, usdc_share)

LpOk(p, a, b) == [ok |-> TRUE, err |-> "", p |-> p, ret |-> a, ret2 |-> b]
LpPanic(p, msg) == [ok |-> FALSE, err |-> msg, p |-> p, ret |-> 0, ret2 |-> 0]

\* the portfolio part of CounterContract::add_liquidity, after the rate-limit check
add_liquidity(p, xlm_amount, usdc_amount, user) ==
    IF ~(balance_of(p, XLM, user) >= xlm_amount) THEN LpPanic(p, "Insufficient XLM balance")
    ELSE IF ~(balance_of(p, USDCSIM, user) >= usdc_amount)
    THEN LpPanic(p, "Insufficient USDC balance")
    ELSE
    LET lp_tokens_minted == IF p.total_lp_tokens = 0
                            THEN first_provider_tokens(xlm_amount, usdc_amount)
                            ELSE proportional_tokens(p, xlm_amount, usdc_amount)
        d1 == debit(p, XLM, user, xlm_amount)
        d2 == debit(d1.p, USDCSIM, user, usdc_amount)
        p3 == add_pool_liquidity(d2.p, xlm_amount, usdc_amount)
        pos == p3.lp_positions[user]
        new_position == [present |-> TRUE,
                         xlm_deposited |-> pos.xlm_deposited + xlm_amount,
                         usdc_deposited |-> pos.usdc_deposited + usdc_amount,
                         lp_tokens_minted |-> pos.lp_tokens_minted + lp_tokens_minted]
        p4 == [p3 EXCEPT !.lp_positions[user] = new_position]
    IN IF ~(lp_tokens_minted > 0) THEN LpPanic(p, "LP tokens minted must be positive")
       ELSE IF ~d1.ok THEN LpPanic(p, d1.err)
       ELSE IF ~d2.ok THEN LpPanic(p, d2.err)
       ELSE LpOk(add_total_lp_tokens(p4, lp_tokens_minted), lp_tokens_minted, 0)

\* burns what the account holds when it asks for more
remove_liquidity_clamped(p, asked, user) ==
    LET pos == p.lp_positions[user]
        lp_tokens == IF asked > pos.lp_tokens_minted /\ pos.lp_tokens_minted > 0
                     THEN pos.lp_tokens_minted ELSE asked
        current_xlm == get_liquidity(p, XLM)
        current_usdc == get_liquidity(p, USDCSIM)
        total_lp_tokens == p.total_lp_tokens
        xlm_amount == (lp_tokens * current_xlm) \div total_lp_tokens
        usdc_amount == (lp_tokens * current_usdc) \div total_lp_tokens
    IN IF ~(lp_tokens > 0) THEN LpPanic(p, "LP tokens must be positive")
       ELSE IF ~pos.present THEN LpPanic(p, "User has no LP position")
       ELSE IF ~(pos.lp_tokens_minted >= lp_tokens) THEN LpPanic(p, "Insufficient LP tokens")
       ELSE IF ~(total_lp_tokens > 0) THEN LpPanic(p, "No LP tokens in pool")
       ELSE IF ~(xlm_amount > 0 /\ usdc_amount > 0) THEN LpPanic(p, "Amounts must be positive")
       ELSE IF xlm_amount > TruncDiv(pos.xlm_deposited * 101, 100)
               \/ usdc_amount > TruncDiv(pos.usdc_deposited * 101, 100)
       THEN LpPanic(p, "Cannot remove more than deposited")
       ELSE
       LET p1 == set_liquidity(p, XLM, current_xlm - xlm_amount)
           p2 == set_liquidity(p1, USDCSIM, current_usdc - usdc_amount)
           m1 == mint(p2, XLM, user, xlm_amount)
           m2 == mint(m1.p, USDCSIM, user, usdc_amount)
           new_pos == [present |-> TRUE,
                       xlm_deposited |-> pos.xlm_deposited - xlm_amount,
                       usdc_deposited |-> pos.usdc_deposited - usdc_amount,
                       lp_tokens_minted |-> pos.lp_tokens_minted - lp_tokens]
           p5 == [m2.p EXCEPT !.lp_positions[user] = new_pos]
       IN LpOk(subtract_total_lp_tokens(p5, lp_tokens), xlm_amount, usdc_amount)

remove_liquidity(p, lp_tokens, user) ==
    LET pos == p.lp_positions[user]
        current_xlm == get_liquidity(p, XLM)
        current_usdc == get_liquidity(p, USDCSIM)
        total_lp_tokens == p.total_lp_tokens
        xlm_amount == (lp_tokens * current_xlm) \div total_lp_tokens
        usdc_amount == (lp_tokens * current_usdc) \div total_lp_tokens
    IN IF ~(lp_tokens > 0) THEN LpPanic(p, "LP tokens must be positive")
       ELSE IF ~pos.present THEN LpPanic(p, "User has no LP position")
       ELSE IF ~(pos.lp_tokens_minted >= lp_tokens) THEN LpPanic(p, "Insufficient LP tokens")
       ELSE IF ~(total_lp_tokens > 0) THEN LpPanic(p, "No LP tokens in pool")
       ELSE IF ~(xlm_amount > 0 /\ usdc_amount > 0) THEN LpPanic(p, "Amounts must be positive")
       ELSE IF xlm_amount > TruncDiv(pos.xlm_deposited * 101, 100)
               \/ usdc_amount > TruncDiv(pos.usdc_deposited * 101, 100)
       THEN LpPanic(p, "Cannot remove more than deposited")
       ELSE
       LET p1 == set_liquidity(p, XLM, current_xlm - xlm_amount)
           p2 == set_liquidity(p1, USDCSIM, current_usdc - usdc_amount)
           m1 == mint(p2, XLM, user, xlm_amount)
           m2 == mint(m1.p, USDCSIM, user, usdc_amount)
           new_pos == [present |-> TRUE,
                       xlm_deposited |-> pos.xlm_deposited - xlm_amount,
                       usdc_deposited |-> pos.usdc_deposited - usdc_amount,
                       lp_tokens_minted |-> pos.lp_tokens_minted - lp_tokens]
           p5 == [m2.p EXCEPT !.lp_positions[user] = new_pos]
       IN LpOk(subtract_total_lp_tokens(p5, lp_tokens), xlm_amount, usdc_amount)

(* --------------------------- batch executor ---------------------------- *)

\* A batch operation: kind, two token symbols (a, b), two amounts (x, y), user.
\*   Swap(a, b, x, user)   AddLiquidity(x, y, user)
\*   RemoveLiquidity(x, y, user)   MintToken(a, user, x)
OpSwap(from, to, amount, user) ==
    [kind |-> "Swap", a |-> from, b |-> to, x |-> amount, y |-> 0, user |-> user]
OpAddLiquidity(xlm_amount, usdc_amount, user) ==
    [kind |-> "AddLiquidity", a |-> "", b |-> "", x |-> xlm_amount, y |-> usdc_amount,
     user |-> user]
OpRemoveLiquidity(xlm_amount, usdc_amount, user) ==
    [kind |-> "RemoveLiquidity", a |-> "", b |-> "", x |-> xlm_amount, y |-> usdc_amount,
     user |-> user]
OpMintToken(token, to, amount) ==
    [kind |-> "MintToken", a |-> token, b |-> "", x |-> amount, y |-> 0, user |-> to]

Success(v) == [ok |-> TRUE, value |-> v, err |-> ""]
OpError(e) == [ok |-> FALSE, value |-> 0, err |-> e]

BatchResult_new == [results |-> <<>>, operations_executed |-> 0, operations_failed |-> 0]

\* batch.rs recognises "XLM" and "USDC-SIM" only
is_valid_token(token) == token \in {XLM, USDC_SIM}

\* "" when the operation is well formed, else the error symbol
validate_operation(op) ==
    CASE op.kind = "Swap" ->
           IF op.x <= 0 THEN "invalid_amount"
           ELSE IF op.a = op.b THEN "same_token_swap"
           ELSE IF ~is_valid_token(op.a) \/ ~is_valid_token(op.b) THEN "invalid_token"
           ELSE ""
      [] op.kind = "AddLiquidity" ->
           IF op.x <= 0 \/ op.y <= 0 THEN "invalid_liquidity" ELSE ""
      [] op.kind = "RemoveLiquidity" ->
           IF op.x < 0 \/ op.y < 0 THEN "negative_liquidity"
           ELSE IF op.x = 0 /\ op.y = 0 THEN "zero_liquidity"
           ELSE ""
      [] op.kind = "MintToken" ->
           IF op.x < 0 THEN "negative_mint"
           ELSE IF ~is_valid_token(op.a) THEN "invalid_token"
           ELSE ""

\* validate_batch looking at the first operation only
validate_batch_first_only(operations) ==
    IF Len(operations) > MAX_BATCH_SIZE THEN "batch_size_exceeded"
    ELSE IF Len(operations) = 0 THEN "empty_batch"
    ELSE validate_operation(operations[1])

\* validate_batch without the size limit
validate_batch_any_size(operations) ==
    IF Len(operations) = 0 THEN "empty_batch"
    ELSE LET bad == {i \in 1..Len(operations) : validate_operation(operations[i]) # ""}
         IN IF bad = {} THEN ""
            ELSE validate_operation(operations[CHOOSE i \in bad : \A j \in bad : i <= j])

validate_batch(operations) ==
    IF Len(operations) > MAX_BATCH_SIZE THEN "batch_size_exceeded"
    ELSE IF Len(operations) = 0 THEN "empty_batch"
    ELSE LET bad == {i \in 1..Len(operations) : validate_operation(operations[i]) # ""}
         IN IF bad = {} THEN ""
            ELSE validate_operation(operations[CHOOSE i \in bad : \A j \in bad : i <= j])

\* outcome of one operation: "ok" (Ok(value)), "err" (Err(symbol)) or "panic"
OneOk(p, v) == [status |-> "ok", p |-> p, value |-> v, err |-> ""]
OneErr(p, e) == [status |-> "err", p |-> p, value |-> 0, err |-> e]
OnePanic(p, e) == [status |-> "panic", p |-> p, value |-> 0, err |-> e]

execute_single_operation(p, pr, slip, t, op) ==
    CASE op.kind = "Swap" ->
           IF balance_of(p, op.a, op.user) < op.x THEN OneErr(p, "insufficient_funds")
           ELSE Let(perform_swap(p, pr, slip, t, op.a, op.b, op.x, op.user), LAMBDA sw :
                  IF ~sw.ok THEN OnePanic(p, sw.err)
                  ELSE OneOk(record_trade(sw.p, op.user), sw.out))
      [] op.kind = "AddLiquidity" ->
           IF balance_of(p, XLM, op.user) < op.x \/ balance_of(p, USDC_SIM, op.user) < op.y
           THEN OneErr(p, "insufficient_funds")
           ELSE OneOk(add_pool_liquidity(p, op.x, op.y), op.x + op.y)
      [] op.kind = "RemoveLiquidity" ->
           LET m1 == mint(p, XLM, op.user, op.x)
               m2 == mint(m1.p, USDC_SIM, op.user, op.y)
           IN IF ~m1.ok THEN OnePanic(p, m1.err)
              ELSE IF ~m2.ok THEN OnePanic(p, m2.err)
              ELSE OneOk(m2.p, op.x + op.y)
      [] op.kind = "MintToken" ->
           LET m == mint(p, op.a, op.user, op.x)
           IN IF ~m.ok THEN OnePanic(p, m.err) ELSE OneOk(m.p, op.x)

\* outcome of a batch: "ok" (Ok(report)), "err" (Err(symbol)) or "panic";
\* p is the caller's portfolio as the executor leaves it
BatchOut(status, p, report) == [status |-> status, p |-> p, report |-> report]

RECURSIVE atomic_loop(_, _, _, _, _, _, _, _)

\* atomic_loop that reports the failure but neither restores the snapshot nor
\* returns Err
atomic_loop_no_rollback(snapshot, p, pr, slip, t, operations, i, report) ==
    IF i > Len(operations) THEN BatchOut("ok", p, report)
    ELSE Let(execute_single_operation(p, pr, slip, t, operations[i]), LAMBDA r :
           CASE r.status = "ok" ->
                  atomic_loop(snapshot, r.p, pr, slip, t, operations, i + 1,
                      [report EXCEPT !.results = Append(@, Success(r.value)),
                                     !.operations_executed = @ + 1])
             [] r.status = "err" ->
                  BatchOut("ok", p,
                      [report EXCEPT !.results = Append(@, OpError(r.err)),
                                     !.operations_failed = @ + 1])
             [] r.status = "panic" -> BatchOut("panic", snapshot, report))

atomic_loop(snapshot, p, pr, slip, t, operations, i, report) ==
    IF i > Len(operations) THEN BatchOut("ok", p, report)
    ELSE Let(execute_single_operation(p, pr, slip, t, operations[i]), LAMBDA r :
           CASE r.status = "ok" ->
                  atomic_loop(snapshot, r.p, pr, slip, t, operations, i + 1,
                      [report EXCEPT !.results = Append(@, Success(r.value)),
                                     !.operations_executed = @ + 1])
             [] r.status = "err" ->
                  BatchOut("err", snapshot,
                      [report EXCEPT !.results = Append(@, OpError(r.err)),
                                     !.operations_failed = @ + 1])
             [] r.status = "panic" -> BatchOut("panic", snapshot, report))

execute_batch_atomic(p, pr, slip, t, operations) ==
    IF validate_batch(operations) # "" THEN BatchOut("err", p, BatchResult_new)
    ELSE atomic_loop(p, p, pr, slip, t, operations, 1, BatchResult_new)

RECURSIVE best_effort_loop(_, _, _, _, _, _, _)
best_effort_loop(p, pr, slip, t, operations, i, report) ==
    IF i > Len(operations) THEN BatchOut("ok", p, report)
    ELSE Let(execute_single_operation(p, pr, slip, t, operations[i]), LAMBDA r :
           CASE r.status = "ok" ->
                  best_effort_loop(r.p, pr, slip, t, operations, i + 1,
                      [report EXCEPT !.results = Append(@, Success(r.value)),
                                     !.operations_executed = @ + 1])
             [] r.status = "err" ->
                  best_effort_loop(p, pr, slip, t, operations, i + 1,
                      [report EXCEPT !.results = Append(@, OpError(r.err)),
                                     !.operations_failed = @ + 1])
             [] r.status = "panic" -> BatchOut("panic", p, report))

execute_batch_best_effort(p, pr, slip, t, operations) ==
    IF validate_batch(operations) # "" THEN BatchOut("err", p, BatchResult_new)
    ELSE best_effort_loop(p, pr, slip, t, operations, 1, BatchResult_new)

(* -------------------------- contract entry points ---------------------- *)

\* What an entry point leaves behind: returned = FALSE is a panic (the host
\* reverts the call), p and rate are the stored portfolio and counters.
CallOut(returned, err, p, r, ret, ret2, status, report) ==
    [returned |-> returned, err |-> err, p |-> p, rate |-> r, ret |-> ret, ret2 |-> ret2,
     status |-> status, report |-> report]

Reverted(p, r, err, status) == CallOut(FALSE, err, p, r, 0, 0, status, BatchResult_new)

CounterContract_mint(p, r, token, to, amount) ==
    LET m == mint(p, token, to, amount)
    IN IF ~m.ok THEN Reverted(p, r, m.err, LimitOk)
       ELSE CallOut(TRUE, "", m.p, r, 0, 0, LimitOk, BatchResult_new)

\* CounterContract::swap recording the rate-limit use before it knows the outcome
CounterContract_swap_counts_failure(p, r, pr, slip, t, from, to, amount, user) ==
    LET user_tier == get_user_tier(p, user)
        limit == check_swap_limit(r, t, user, user_tier)
        fee_bps == effective_fee_bps(user_tier)
        fee_amount == TruncDiv(amount * fee_bps, BPS_DENOM)
        swap_amount == amount - fee_amount
    IN IF ~limit.ok THEN Reverted(p, r, "RATELIMIT", limit)
       ELSE
       Let(IF fee_amount > 0 THEN debit(p, from, user, fee_amount) ELSE Done(p),
           LAMBDA charged :
       IF ~charged.ok THEN Reverted(p, record_swap(r, user, t), charged.err, limit)
       ELSE
       Let(IF fee_amount > 0 THEN collect_fee(charged.p, fee_amount) ELSE p, LAMBDA p1 :
       Let(perform_swap(p1, pr, slip, t, from, to, swap_amount, user), LAMBDA sw :
       IF ~sw.ok THEN Reverted(p, record_swap(r, user, t), sw.err, limit)
       ELSE
       Let(record_transaction(sw.p, user, amount), LAMBDA recorded :
       CallOut(TRUE, "", update_tier(recorded, user), record_swap(r, user, t), sw.out, 0,
               limit, BatchResult_new)))))

\* CounterContract::swap storing the portfolio as it stands when perform_swap fails
CounterContract_swap_keeps_fee(p, r, pr, slip, t, from, to, amount, user) ==
    LET user_tier == get_user_tier(p, user)
        limit == check_swap_limit(r, t, user, user_tier)
        fee_bps == effective_fee_bps(user_tier)
        fee_amount == TruncDiv(amount * fee_bps, BPS_DENOM)
        swap_amount == amount - fee_amount
    IN IF ~limit.ok THEN Reverted(p, r, "RATELIMIT", limit)
       ELSE
       Let(IF fee_amount > 0 THEN debit(p, from, user, fee_amount) ELSE Done(p),
           LAMBDA charged :
       IF ~charged.ok THEN Reverted(p, r, charged.err, limit)
       ELSE
       Let(IF fee_amount > 0 THEN collect_fee(charged.p, fee_amount) ELSE p, LAMBDA p1 :
       Let(perform_swap(p1, pr, slip, t, from, to, swap_amount, user), LAMBDA sw :
       IF ~sw.ok THEN Reverted(p1, r, sw.err, limit)
       ELSE
       Let(record_transaction(sw.p, user, amount), LAMBDA recorded :
       CallOut(TRUE, "", update_tier(recorded, user), record_swap(r, user, t), sw.out, 0,
               limit, BatchResult_new)))))

CounterContract_swap(p, r, pr, slip, t, from, to, amount, user) ==
    LET user_tier == get_user_tier(p, user)
        limit == check_swap_limit(r, t, user, user_tier)
        fee_bps == effective_fee_bps(user_tier)
        fee_amount == TruncDiv(amount * fee_bps, BPS_DENOM)
        swap_amount == amount - fee_amount
    IN IF ~limit.ok THEN Reverted(p, r, "RATELIMIT", limit)
       ELSE
       Let(IF fee_amount > 0 THEN debit(p, from, user, fee_amount) ELSE Done(p),
           LAMBDA charged :
       IF ~charged.ok THEN Reverted(p, r, charged.err, limit)
       ELSE
       Let(IF fee_amount > 0 THEN collect_fee(charged.p, fee_amount) ELSE p, LAMBDA p1 :
       Let(perform_swap(p1, pr, slip, t, from, to, swap_amount, user), LAMBDA sw :
       IF ~sw.ok THEN Reverted(p, r, sw.err, limit)
       ELSE
       Let(record_transaction(sw.p, user, amount), LAMBDA recorded :
       CallOut(TRUE, "", update_tier(recorded, user), record_swap(r, user, t), sw.out, 0,
               limit, BatchResult_new)))))

\* safe_swap that does not record the swap in the rate limiter
CounterContract_safe_swap_unrecorded(p, r, pr, slip, t, from, to, amount, user) ==
    LET valid == amount > 0 /\ from # to
        user_tier == get_user_tier(p, user)
        limit == check_swap_limit(r, t, user, user_tier)
        fee_bps == effective_fee_bps(user_tier)
        fee_amount == TruncDiv(amount * fee_bps, BPS_DENOM)
        swap_amount == amount - fee_amount
    IN IF ~valid
       THEN CallOut(TRUE, "invalid", inc_failed_order(p), r, 0, 0, LimitOk, BatchResult_new)
       ELSE IF ~limit.ok
       THEN CallOut(TRUE, "RATELIMIT", inc_failed_order(p), r, 0, 0, limit, BatchResult_new)
       ELSE
       Let(IF fee_amount > 0 THEN collect_fee(p, fee_amount) ELSE p, LAMBDA p1 :
       Let(perform_swap(p1, pr, slip, t, from, to, swap_amount, user), LAMBDA sw :
       IF ~sw.ok THEN Reverted(p, r, sw.err, limit)
       ELSE
       Let(record_transaction(sw.p, user, amount), LAMBDA recorded :
       CallOut(TRUE, "", update_tier(recorded, user), r, sw.out, 0,
               limit, BatchResult_new))))

CounterContract_safe_swap(p, r, pr, slip, t, from, to, amount, user) ==
    LET valid == amount > 0 /\ from # to
        user_tier == get_user_tier(p, user)
        limit == check_swap_limit(r, t, user, user_tier)
        fee_bps == effective_fee_bps(user_tier)
        fee_amount == TruncDiv(amount * fee_bps, BPS_DENOM)
        swap_amount == amount - fee_amount
    IN IF ~valid
       THEN CallOut(TRUE, "invalid", inc_failed_order(p), r, 0, 0, LimitOk, BatchResult_new)
       ELSE IF ~limit.ok
       THEN CallOut(TRUE, "RATELIMIT", inc_failed_order(p), r, 0, 0, limit, BatchResult_new)
       ELSE
       Let(IF fee_amount > 0 THEN collect_fee(p, fee_amount) ELSE p, LAMBDA p1 :
       Let(perform_swap(p1, pr, slip, t, from, to, swap_amount, user), LAMBDA sw :
       IF ~sw.ok THEN Reverted(p, r, sw.err, limit)
       ELSE
       Let(record_transaction(sw.p, user, amount), LAMBDA recorded :
       CallOut(TRUE, "", update_tier(recorded, user), record_swap(r, user, t), sw.out, 0,
               limit, BatchResult_new))))

FailedReport == [BatchResult_new EXCEPT !.operations_failed = 1]

CounterContract_execute_batch_atomic(p, r, pr, slip, t, operations) ==
    Let(execute_batch_atomic(p, pr, slip, t, operations), LAMBDA b :
       CASE b.status = "ok" -> CallOut(TRUE, "", b.p, r, 0, 0, LimitOk, b.report)
         [] b.status = "err" -> CallOut(TRUE, "batch_failed", p, r, 0, 0, LimitOk, FailedReport)
         [] b.status = "panic" -> Reverted(p, r, "panic", LimitOk))

CounterContract_execute_batch_best_effort(p, r, pr, slip, t, operations) ==
    Let(execute_batch_best_effort(p, pr, slip, t, operations), LAMBDA b :
       CASE b.status = "ok" -> CallOut(TRUE, "", b.p, r, 0, 0, LimitOk, b.report)
         [] b.status = "err" -> CallOut(TRUE, "batch_failed", p, r, 0, 0, LimitOk, FailedReport)
         [] b.status = "panic" -> Reverted(p, r, "panic", LimitOk))

CounterContract_add_liquidity(p, r, t, xlm_amount, usdc_amount, user) ==
    LET user_tier == get_user_tier(p, user)
        limit == check_lp_limit(r, t, user, user_tier)
        lp == add_liquidity(p, xlm_amount, usdc_amount, user)
    IN IF ~(xlm_amount > 0) THEN Reverted(p, r, "XLM amount must be positive", LimitOk)
       ELSE IF ~(usdc_amount > 0) THEN Reverted(p, r, "USDC amount must be positive", LimitOk)
       ELSE IF ~limit.ok THEN Reverted(p, r, "RATELIMIT", limit)
       ELSE IF ~lp.ok THEN Reverted(p, r, lp.err, limit)
       ELSE CallOut(TRUE, "", lp.p, record_lp_op(r, user, t), lp.ret, 0, limit, BatchResult_new)

CounterContract_remove_liquidity(p, r, t, lp_tokens, user) ==
    LET lp == remove_liquidity(p, lp_tokens, user)
    IN IF ~lp.ok THEN Reverted(p, r, lp.err, LimitOk)
       ELSE CallOut(TRUE, "", lp.p, record_lp_op(r, user, t), lp.ret, lp.ret2, LimitOk,
                    BatchResult_new)

CounterContract_record_trade(p, r, user) ==
    CallOut(TRUE, "", record_trade(p, user), r, 0, 0, LimitOk, BatchResult_new)

\* returns the tier, leaves the portfolio as it is
CounterContract_get_user_tier(p, r, user) ==
    CallOut(TRUE, "", p, r, get_user_tier(p, user), 0, LimitOk, BatchResult_new)

(* ------------------------------- actions ------------------------------- *)

LastOf(op, user, from, to, amount, amount2, operations, out) ==
    [op |-> op, user |-> user, from |-> from, to |-> to, amount |-> amount,
     amount2 |-> amount2, ops |-> operations,
     returned |-> out.returned, err |-> out.err, ret |-> out.ret, ret2 |-> out.ret2,
     status |-> out.status, report |-> out.report,
     pre |-> portfolio, pre_rate |-> rate, pre_now |-> now]

(* ------------------------- emergency controls ------------------------- *)

NoAdmin == ""

\* instance storage before any EmergencyKey entry is written
Emergency_new == [admin |-> NoAdmin, paused |-> FALSE, frozen |-> {}]

set_admin(e, admin) == [e EXCEPT !.admin = admin]

is_admin(e, addr) == e.admin # NoAdmin /\ e.admin = addr

is_paused(e) == e.paused

is_frozen(e, user) == user \in e.frozen

\* assert!(is_admin): another caller's call panics and writes nothing
pause(e, admin) == IF is_admin(e, admin) THEN [e EXCEPT !.paused = TRUE] ELSE e

unpause(e, admin) == IF is_admin(e, admin) THEN [e EXCEPT !.paused = FALSE] ELSE e

freeze_user(e, admin, user) ==
    IF is_admin(e, admin) THEN [e EXCEPT !.frozen = @ \cup {user}] ELSE e

unfreeze_user(e, admin, user) ==
    IF is_admin(e, admin) THEN [e EXCEPT !.frozen = @ \ {user}] ELSE e

Init ==
    /\ portfolio = Portfolio_new
    /\ rate = <<>>
    /\ prices = [pair \in Tokens \X Tokens |-> NoPrice]
    /\ max_slip = DEFAULT_MAX_SLIP
    /\ now = 0
    /\ steps = 0
    /\ emergency = Emergency_new
    /\ last = LastOf("init", "", "", "", 0, 0, <<>>,
                     CallOut(TRUE, "", Portfolio_new, <<>>, 0, 0, LimitOk, BatchResult_new))

\* a call: the stored portfolio and counters become what the entry point left
Commit(out) ==
    /\ portfolio' = out.p
    /\ rate' = out.rate
    /\ UNCHANGED <<prices, max_slip, now, emergency>>

Mint(token, to, amount) ==
    \E out \in {CounterContract_mint(portfolio, rate, token, to, amount)} :
       /\ Commit(out)
       /\ last' = LastOf("mint", to, token, "", amount, 0, <<>>, out)

Swap(from, to, amount, user) ==
    \E out \in {CounterContract_swap(portfolio, rate, prices, max_slip, now,
                                    from, to, amount, user)} :
       /\ Commit(out)
       /\ last' = LastOf("swap", user, from, to, amount, 0, <<>>, out)

SafeSwap(from, to, amount, user) ==
    \E out \in {CounterContract_safe_swap(portfolio, rate, prices, max_slip, now,
                                         from, to, amount, user)} :
       /\ Commit(out)
       /\ last' = LastOf("safe_swap", user, from, to, amount, 0, <<>>, out)

AddLiquidity(xlm_amount, usdc_amount, user) ==
    \E out \in {CounterContract_add_liquidity(portfolio, rate, now,
                                             xlm_amount, usdc_amount, user)} :
       /\ Commit(out)
       /\ last' = LastOf("add_liquidity", user, "", "", xlm_amount, usdc_amount, <<>>, out)

RemoveLiquidity(lp_tokens, user) ==
    \E out \in {CounterContract_remove_liquidity(portfolio, rate, now, lp_tokens, user)} :
       /\ Commit(out)
       /\ last' = LastOf("remove_liquidity", user, "", "", lp_tokens, 0, <<>>, out)

ExecuteBatchAtomic(operations) ==
    \E out \in {CounterContract_execute_batch_atomic(portfolio, rate, prices, max_slip, now,
                                                    operations)} :
       /\ Commit(out)
       /\ last' = LastOf("execute_batch_atomic", "", "", "", 0, 0, operations, out)

ExecuteBatchBestEffort(operations) ==
    \E out \in {CounterContract_execute_batch_best_effort(portfolio, rate, prices, max_slip,
                                                         now, operations)} :
       /\ Commit(out)
       /\ last' = LastOf("execute_batch_best_effort", "", "", "", 0, 0, operations, out)

RecordTrade(user) ==
    \E out \in {CounterContract_record_trade(portfolio, rate, user)} :
       /\ Commit(out)
       /\ last' = LastOf("record_trade", user, "", "", 0, 0, <<>>, out)

GetUserTier(user) ==
    \E out \in {CounterContract_get_user_tier(portfolio, rate, user)} :
       /\ Commit(out)
       /\ last' = LastOf("get_user_tier", user, "", "", 0, 0, <<>>, out)

Quiet(op, token, amount) ==
    LastOf(op, "", token, "", amount, 0, <<>>,
           CallOut(TRUE, "", portfolio, rate, 0, 0, LimitOk, BatchResult_new))

SetPoolLiquidity(token, amount) ==
    /\ portfolio' = set_liquidity(portfolio, token, amount)
    /\ UNCHANGED <<rate, prices, max_slip, now, emergency>>
    /\ last' = Quiet("set_pool_liquidity", token, amount)

SetPrice(from, to, price) ==
    /\ prices' = set_stored_price(prices, <<from, to>>, price, now)
    /\ UNCHANGED <<portfolio, rate, max_slip, now, emergency>>
    /\ last' = Quiet("set_price", from, price)

SetMaxSlippageBps(bps) ==
    /\ max_slip' = bps
    /\ UNCHANGED <<portfolio, rate, prices, now, emergency>>
    /\ last' = Quiet("set_max_slippage_bps", "", bps)

\* the ledger clock moves on between calls
Tick(dt) ==
    /\ now + dt <= MaxTime
    /\ now' = now + dt
    /\ UNCHANGED <<portfolio, rate, prices, max_slip, emergency>>
    /\ last' = Quiet("tick", "", dt)

\* the emergency module's calls write only the EmergencyKey entries
Emergency(op, caller, returned, e) ==
    /\ emergency' = e
    /\ UNCHANGED <<portfolio, rate, prices, max_slip, now>>
    /\ last' = LastOf(op, caller, "", "", 0, 0, <<>>,
                      CallOut(returned, IF returned THEN "" ELSE "Not authorized",
                              portfolio, rate, 0, 0, LimitOk, BatchResult_new))

SetAdmin(admin) == Emergency("set_admin", admin, TRUE, set_admin(emergency, admin))

Pause(admin) ==
    Emergency("pause", admin, is_admin(emergency, admin), pause(emergency, admin))

Unpause(admin) ==
    Emergency("unpause", admin, is_admin(emergency, admin), unpause(emergency, admin))

FreezeUser(admin, user) ==
    Emergency("freeze_user", admin, is_admin(emergency, admin),
              freeze_user(emergency, admin, user))

UnfreezeUser(admin, user) ==
    Emergency("unfreeze_user", admin, is_admin(emergency, admin),
              unfreeze_user(emergency, admin, user))

Bounded(n) == steps < n /\ steps' = steps + 1

(* ---------------------------- specification ---------------------------- *)

\* inputs of the calls
MintAmount == 1000
SwapAmount == 400
BigAmount == 1200
PoolAmount == 1000
HalfPrice == 500
Pairs == {<<XLM, USDCSIM>>, <<USDCSIM, XLM>>}

\* the batches tried: a mint followed by a swap the account cannot fund, two
\* swaps of which the second asks for more than the account holds, a
\* withdrawal and a deposit, and these two followed by a swap the account
\* cannot fund
Batches ==
    [u \in Users |->
    {<<OpMintToken(XLM, u, MintAmount), OpSwap(XLM, USDC_SIM, BigAmount, u)>>,
     <<OpSwap(XLM, USDC_SIM, SwapAmount, u), OpSwap(XLM, USDC_SIM, BigAmount, u)>>,
     <<OpRemoveLiquidity(SwapAmount, SwapAmount, u), OpAddLiquidity(SwapAmount, SwapAmount, u)>>,
     <<OpRemoveLiquidity(SwapAmount, SwapAmount, u), OpAddLiquidity(SwapAmount, SwapAmount, u),
       OpSwap(XLM, USDC_SIM, BigAmount, u)>>}]

Next ==
    \/ \E token \in {XLM, USDCSIM}, u \in Users :
          Bounded(MaxSteps) /\ Mint(token, u, MintAmount)
    \/ \E pair \in Pairs, u \in Users :
          Bounded(MaxSteps) /\ Swap(pair[1], pair[2], SwapAmount, u)
    \/ \E u \in Users :
          Bounded(MaxSteps) /\ SafeSwap(XLM, USDCSIM, SwapAmount, u)
    \/ \E u \in Users :
          Bounded(MaxSteps) /\ AddLiquidity(SwapAmount, SwapAmount, u)
    \/ \E u \in Users :
          Bounded(MaxSteps) /\ RemoveLiquidity(SwapAmount, u)
    \/ \E u \in Users : \E operations \in Batches[u] :
          Bounded(MaxSteps) /\ ExecuteBatchAtomic(operations)
    \/ \E u \in Users : \E operations \in Batches[u] :
          Bounded(MaxSteps) /\ ExecuteBatchBestEffort(operations)
    \/ \E token \in {XLM, USDCSIM} :
          Bounded(MaxSteps) /\ SetPoolLiquidity(token, PoolAmount)
    \/ Bounded(MaxSteps) /\ SetPrice(XLM, USDCSIM, HalfPrice)
    \/ Bounded(MaxSteps) /\ Tick(HOUR)

Spec == Init /\ [][Next]_vars

(* A single account trading small amounts while the clock moves: the rate  *)
(* limiter's window.                                                       *)

MaxRateSteps == 9
RateMint == 30
RateSwap == 3
HalfHour == 1800

NextRate ==
    \/ \E u \in Users :
          Bounded(MaxRateSteps) /\ Mint(XLM, u, RateMint)
    \/ \E u \in Users :
          Bounded(MaxRateSteps) /\ Swap(XLM, USDCSIM, RateSwap, u)
    \/ \E dt \in {HalfHour, HOUR} :
          Bounded(MaxRateSteps) /\ Tick(dt)

SpecRate == Init /\ [][NextRate]_vars

(* Liquidity providers depositing and withdrawing small amounts.           *)

MaxLpSteps == 5
LpMint == 8
MaxLpAmount == 4

NextLP ==
    \/ \E token \in {XLM, USDCSIM}, u \in Users :
          Bounded(MaxLpSteps) /\ Mint(token, u, LpMint)
    \/ \E a \in 1..MaxLpAmount, b \in 1..MaxLpAmount, u \in Users :
          Bounded(MaxLpSteps) /\ AddLiquidity(a, b, u)
    \/ \E shares \in 1..MaxLpAmount, u \in Users :
          Bounded(MaxLpSteps) /\ RemoveLiquidity(shares, u)
    \/ \E pair \in Pairs, u \in Users :
          Bounded(MaxLpSteps) /\ Swap(pair[1], pair[2], MaxLpAmount, u)

SpecLP == Init /\ [][NextLP]_vars

\* deposits large enough for the 1% tolerance of remove_liquidity to matter,
\* with a small swap in between
MaxTripSteps == 7
TripMint == 1000
TripSmall == 100
TripLarge == 400
TripSwap == 3
TripAmounts == {TripSmall, TripLarge}

NextTrip ==
    \/ \E token \in {XLM, USDCSIM} :
          Bounded(MaxTripSteps) /\ Mint(token, "u1", TripMint)
    \/ \E a \in TripAmounts :
          Bounded(MaxTripSteps) /\ AddLiquidity(a, a, "u1")
    \/ \E shares \in TripAmounts :
          Bounded(MaxTripSteps) /\ RemoveLiquidity(shares, "u1")
    \/ Bounded(MaxTripSteps) /\ Swap(XLM, USDCSIM, TripSwap, "u1")

SpecTrip == Init /\ [][NextTrip]_vars

\* swaps that cannot go through: malformed ones, and well-formed ones that
\* meet an account short of funds, a tight slippage bound or a bad quote
MaxBadSteps == 5
TightSlip == 10
BadSwaps ==
    {<<XLM, USDCSIM, 0>>, <<XLM, USDCSIM, 0 - SwapAmount>>, <<XLM, XLM, SwapAmount>>,
     <<USDC_SIM, XLM, SwapAmount>>, <<XLM, USDC_SIM, SwapAmount>>}

NextBad ==
    \/ \E token \in Tokens :
          Bounded(MaxBadSteps) /\ Mint(token, "u1", MintAmount)
    \/ \E bad \in BadSwaps :
          Bounded(MaxBadSteps) /\ Swap(bad[1], bad[2], bad[3], "u1")
    \/ \E pair \in Pairs, amount \in {SwapAmount, BigAmount} :
          Bounded(MaxBadSteps) /\ Swap(pair[1], pair[2], amount, "u1")
    \/ \E token \in {XLM, USDCSIM} :
          Bounded(MaxBadSteps) /\ SetPoolLiquidity(token, PoolAmount)
    \/ Bounded(MaxBadSteps) /\ SetPrice(XLM, USDCSIM, HalfPrice)
    \/ Bounded(MaxBadSteps) /\ SetPrice(USDCSIM, XLM, 0)
    \/ Bounded(MaxBadSteps) /\ SetMaxSlippageBps(TightSlip)
    \/ Bounded(MaxBadSteps) /\ Tick(HOUR)

SpecBad == Init /\ [][NextBad]_vars

\* swaps priced by the oracle: no pool, quotes below and above 1:1 in either
\* direction, and a clock that reaches the staleness threshold and passes it
MaxOracleSteps == 5
OracleSmall == 3
HighPrice == 2500
OraclePrices == {HalfPrice, HighPrice}
OracleAmounts == {OracleSmall, SwapAmount}

NextOracle ==
    \/ \E token \in {XLM, USDCSIM} :
          Bounded(MaxOracleSteps) /\ Mint(token, "u1", MintAmount)
    \/ \E pair \in Pairs, amount \in OracleAmounts :
          Bounded(MaxOracleSteps) /\ Swap(pair[1], pair[2], amount, "u1")
    \/ \E pair \in Pairs, price \in OraclePrices :
          Bounded(MaxOracleSteps) /\ SetPrice(pair[1], pair[2], price)
    \/ \E dt \in {STALE_THRESHOLD_SECONDS, 1} :
          Bounded(MaxOracleSteps) /\ Tick(dt)

SpecOracle == Init /\ [][NextOracle]_vars

\* swaps priced by the pool: a shallow and a deep pool, an amount that carries
\* no tier fee and one whose tier fee differs between Novice and Trader
MaxPoolSteps == 6
PoolSwap == 200
TierSwap == 340
DeepPool == 1000000
PoolDepths == {PoolAmount, DeepPool}
PoolSwaps == {PoolSwap, TierSwap}

NextPool ==
    \/ \E token \in {XLM, USDCSIM} :
          Bounded(MaxPoolSteps) /\ Mint(token, "u1", MintAmount)
    \/ \E token \in {XLM, USDCSIM}, depth \in PoolDepths :
          Bounded(MaxPoolSteps) /\ SetPoolLiquidity(token, depth)
    \/ \E pair \in Pairs, amount \in PoolSwaps :
          Bounded(MaxPoolSteps) /\ Swap(pair[1], pair[2], amount, "u1")

SpecPool == Init /\ [][NextPool]_vars

\* the tier function on trade counts and volumes at, below and above each
\* threshold: an account starts with a count and a volume of the grid (a
\* volume takes at least one trade), and the count grows by record_trade
MaxTierSteps == 3
TierCounts == {0, 1, 9, 10, 11, 49, 50, 51, 199, 200, 201}
TierVolumes == {0, 1, 99, 100, 101, 999, 1000, 1001, 9999, 10000, 10001}

\* where an account stands after count - 1 calls of record_trade, a mint of
\* the volume and one swap of it at 1:1 (count calls of record_trade when the
\* volume is 0)
TradedBefore(count, volume) ==
    LET recorded(n) == [Portfolio_new EXCEPT !.trades["u1"] = n, !.trades_executed = n]
    IN IF volume = 0
       THEN CallOut(TRUE, "", recorded(count), <<>>, 0, 0, LimitOk, BatchResult_new)
       ELSE CounterContract_swap(mint(recorded(count - 1), XLM, "u1", volume).p, <<>>,
                                 [pair \in Tokens \X Tokens |-> NoPrice], DEFAULT_MAX_SLIP, 0,
                                 XLM, USDCSIM, volume, "u1")

InitTier ==
    /\ \E count \in TierCounts, volume \in TierVolumes :
          /\ count >= 1 \/ volume = 0
          /\ \E out \in {TradedBefore(count, volume)} :
                /\ out.returned
                /\ portfolio = out.p
                /\ rate = out.rate
    /\ prices = [pair \in Tokens \X Tokens |-> NoPrice]
    /\ max_slip = DEFAULT_MAX_SLIP
    /\ now = 0
    /\ steps = 0
    /\ emergency = Emergency_new
    /\ last = LastOf("init", "", "", "", 0, 0, <<>>,
                     CallOut(TRUE, "", Portfolio_new, <<>>, 0, 0, LimitOk, BatchResult_new))

NextTier ==
    \/ Bounded(MaxTierSteps) /\ RecordTrade("u1")
    \/ Bounded(MaxTierSteps) /\ GetUserTier("u1")

SpecTier == InitTier /\ [][NextTier]_vars

\* swaps by accounts of every tier: an account that starts at a count and a
\* volume of the grid, is minted funds and swaps them at 1:1
MaxFeeSteps == 3
FeeSwap == 1000

NextFee ==
    \/ Bounded(MaxFeeSteps) /\ Mint(XLM, "u1", FeeSwap)
    \/ Bounded(MaxFeeSteps) /\ Swap(XLM, USDCSIM, FeeSwap, "u1")

SpecFee == InitTier /\ [][NextFee]_vars

\* batches of every shape: none, ten and eleven operations; a valid mint
\* followed by an operation validation turns away; a swap funded by the mint
\* before it; two swaps of which the first spends what the second needs; a
\* single swap, in the spelling of either module
MaxBatchSteps == 3
SizedBatches ==
    {<<>>,
     [i \in 1..MAX_BATCH_SIZE |-> OpMintToken(XLM, "u1", MintAmount)],
     [i \in 1..(MAX_BATCH_SIZE + 1) |-> OpMintToken(XLM, "u1", MintAmount)]}
InvalidBatches ==
    {<<OpMintToken(XLM, "u1", MintAmount), OpSwap(XLM, USDC_SIM, 0, "u1")>>,
     <<OpMintToken(XLM, "u1", MintAmount), OpSwap(XLM, XLM, SwapAmount, "u1")>>,
     <<OpMintToken(XLM, "u1", MintAmount), OpSwap(XLM, USDCSIM, SwapAmount, "u1")>>,
     <<OpMintToken(XLM, "u1", MintAmount), OpAddLiquidity(0, SwapAmount, "u1")>>,
     <<OpMintToken(XLM, "u1", MintAmount), OpMintToken(XLM, "u1", 0 - MintAmount)>>,
     <<OpMintToken(XLM, "u1", MintAmount), OpMintToken(USDCSIM, "u1", MintAmount)>>,
     <<OpSwap(XLM, USDC_SIM, 0, "u1"), OpMintToken(XLM, "u1", MintAmount)>>}
ChainedBatches ==
    {<<OpMintToken(XLM, "u1", MintAmount), OpSwap(XLM, USDC_SIM, MintAmount, "u1")>>,
     <<OpSwap(XLM, USDC_SIM, MintAmount, "u1"), OpSwap(XLM, USDC_SIM, MintAmount, "u1")>>,
     <<OpMintToken(XLM, "u1", MintAmount), OpAddLiquidity(SwapAmount, SwapAmount, "u1")>>,
     <<OpSwap(XLM, USDC_SIM, SwapAmount, "u1")>>,
     <<OpSwap(XLM, USDCSIM, SwapAmount, "u1")>>}
TriedBatches == SizedBatches \cup InvalidBatches \cup ChainedBatches

NextBatch ==
    \/ \E token \in Tokens :
          Bounded(MaxBatchSteps) /\ Mint(token, "u1", MintAmount)
    \/ \E to \in {USDCSIM, USDC_SIM} :
          Bounded(MaxBatchSteps) /\ Swap(XLM, to, SwapAmount, "u1")
    \/ \E operations \in TriedBatches :
          Bounded(MaxBatchSteps) /\ ExecuteBatchAtomic(operations)
    \/ \E operations \in TriedBatches :
          Bounded(MaxBatchSteps) /\ ExecuteBatchBestEffort(operations)

SpecBatch == Init /\ [][NextBatch]_vars

\* one account using up its quota: swaps and deposits that go through, ones
\* that fail (amount 0, more than the account holds, a stale quote), and the
\* clock moving into the next hour
MaxQuotaSteps == 7
QuotaSwap == 3
QuotaSwapAmounts == {0, QuotaSwap, BigAmount}
QuotaDeposits == {QuotaSwap, BigAmount}

NextQuota ==
    \/ \E token \in {XLM, USDCSIM} :
          Bounded(MaxQuotaSteps) /\ Mint(token, "u1", MintAmount)
    \/ \E amount \in QuotaSwapAmounts :
          Bounded(MaxQuotaSteps) /\ Swap(XLM, USDCSIM, amount, "u1")
    \/ Bounded(MaxQuotaSteps) /\ SafeSwap(XLM, USDCSIM, QuotaSwap, "u1")
    \/ \E amount \in QuotaDeposits :
          Bounded(MaxQuotaSteps) /\ AddLiquidity(amount, amount, "u1")
    \/ Bounded(MaxQuotaSteps) /\ SetPrice(XLM, USDCSIM, HalfPrice)
    \/ Bounded(MaxQuotaSteps) /\ Tick(HOUR)

SpecQuota == Init /\ [][NextQuota]_vars

(* ------------------------------ properties ----------------------------- *)

\* the last call was a swap that went through
SwapDone == last.op = "swap" /\ last.returned

\* the last call was a swap or a safe_swap that exchanged assets
ExchangeDone ==
    \/ SwapDone
    \/ last.op = "safe_swap" /\ last.returned /\ last.err = ""

\* all account balances plus both pool reserves
TotalValue(p) == SumOver(DOMAIN p.balances, p.balances) + p.xlm_in_pool + p.usdc_in_pool

\* C1: after any sequence of mint, swap, safe_swap, add_liquidity,
\* remove_liquidity, execute_batch_atomic and execute_batch_best_effort calls,
\* successful or failed, every (account, asset) balance is >= 0.
C1_BalancesNonNegative ==
    \A k \in DOMAIN portfolio.balances : portfolio.balances[k] >= 0

\* a swap asking for more than the account's positive balance was refused
C1_Witness ==
    /\ last.op = "swap"
    /\ ~last.returned
    /\ last.err = "Insufficient funds"
    /\ last.pre.balances[<<last.user, last.from>>] > 0

\* C2: every successful swap conserves value: balances plus reserves before
\* equal balances plus reserves after plus the fee the swap collected, within
\* integer-truncation tolerance.  The fee is read either as the tier fee or
\* as the tier fee plus the LP fee, whichever fits.
C2_SwapConservesValue ==
    SwapDone =>
        LET tier_fee == portfolio.total_fees_collected - last.pre.total_fees_collected
            lp_fee == portfolio.lp_fees_accumulated - last.pre.lp_fees_accumulated
            lost == TotalValue(last.pre) - TotalValue(portfolio)
        IN \E fee \in {tier_fee, tier_fee + lp_fee} :
              lost - fee \in -2..2

\* C3: a successful swap(from, to, amount, account) lowers the account's
\* from-asset balance by exactly amount and raises its to-asset balance by
\* exactly the value the swap returns.
C3_SwapMovesAmountOut ==
    SwapDone =>
        /\ portfolio.balances[<<last.user, last.from>>]
              = last.pre.balances[<<last.user, last.from>>] - last.amount
        /\ portfolio.balances[<<last.user, last.to>>]
              = last.pre.balances[<<last.user, last.to>>] + last.ret

\* the last call was an atomic batch that passed static validation and one of
\* whose operations failed when run
AtomicRunTimeFailure ==
    /\ last.op = "execute_batch_atomic"
    /\ validate_batch(last.ops) = ""
    /\ execute_batch_atomic(last.pre, prices, max_slip, last.pre_now, last.ops).status # "ok"

\* C4: when an atomic batch passes static validation and one of its
\* operations fails at run time, every balance after the call equals the
\* balance before it and the returned report has operations_failed > 0.
C4_AtomicFailureReported ==
    AtomicRunTimeFailure =>
        /\ portfolio.balances = last.pre.balances
        /\ last.returned
        /\ last.report.operations_failed > 0

\* C5: a failed atomic batch leaves every structure (reserves, LP positions,
\* total shares, trade counts, volumes, tiers, fee counters, rate-limit
\* counters) exactly at its pre-batch value.
C5_AtomicFailureRestoresAll ==
    (/\ last.op = "execute_batch_atomic"
     /\ (~last.returned \/ last.report.operations_failed > 0))
    => /\ portfolio = last.pre
       /\ rate = last.pre_rate

\* an atomic batch whose withdrawal and deposit had gone through before its
\* swap found the funds missing
C5_Witness ==
    /\ last.op = "execute_batch_atomic"
    /\ last.returned
    /\ last.err = "batch_failed"
    /\ Len(last.ops) = 3
    /\ last.ops[1].kind = "RemoveLiquidity"
    /\ last.ops[3].kind = "Swap"

\* what the account spends in the operation is in its balance
Funded(p, op) ==
    CASE op.kind = "Swap" -> balance_of(p, op.a, op.user) >= op.x
      [] op.kind = "AddLiquidity" ->
           balance_of(p, XLM, op.user) >= op.x /\ balance_of(p, USDC_SIM, op.user) >= op.y
      [] OTHER -> TRUE

\* the last call was a best-effort batch [op1, op2] that passed static
\* validation, op1 a mint or a swap the account can fund, op2 a swap of more
\* than the account holds once op1 is done
BestEffortCase ==
    /\ last.op = "execute_batch_best_effort"
    /\ Len(last.ops) = 2
    /\ validate_batch(last.ops) = ""
    /\ last.ops[1].kind \in {"Swap", "MintToken"}
    /\ Funded(last.pre, last.ops[1])
    /\ last.ops[2].kind = "Swap"
    /\ (last.ops[1].kind = "Swap" => last.ops[1].b # last.ops[2].a)
    /\ last.ops[2].x >
          balance_of(last.pre, last.ops[2].a, last.ops[2].user)
          + (IF /\ last.ops[1].kind = "MintToken"
                /\ last.ops[1].a = last.ops[2].a
                /\ last.ops[1].user = last.ops[2].user
             THEN last.ops[1].x ELSE 0)

\* C6: in best-effort mode, for a batch [op1, op2] where op1 succeeds and op2
\* fails at run time for insufficient funds, op1's effects on balances
\* persist, op2 is reported as an error entry, and the report has
\* operations_executed >= 1 and operations_failed >= 1.
C6_BestEffortKeepsFirst ==
    BestEffortCase =>
        /\ last.returned
        /\ Len(last.report.results) = 2
        /\ last.report.results[1].ok
        /\ ~last.report.results[2].ok
        /\ last.report.operations_executed >= 1
        /\ last.report.operations_failed >= 1
        /\ IF last.ops[1].kind = "MintToken"
           THEN portfolio.balances[<<last.ops[1].user, last.ops[1].a>>]
                   = last.pre.balances[<<last.ops[1].user, last.ops[1].a>>] + last.ops[1].x
           ELSE portfolio.balances[<<last.ops[1].user, last.ops[1].a>>]
                   < last.pre.balances[<<last.ops[1].user, last.ops[1].a>>]

\* swaps the account had made in the hour-window of the last call
UsedInWindow ==
    CounterGet(last.pre_rate, <<last.user, "swap", (last.pre_now \div 3600) * 3600>>)

C8_SharesSumToTotal ==
    /\ SumOver(Users, [u \in Users |-> portfolio.lp_positions[u].lp_tokens_minted])
          = portfolio.total_lp_tokens
    /\ \A u \in Users : portfolio.lp_positions[u].lp_tokens_minted >= 0

\* a withdrawal went through and left the account with shares
C8_Witness ==
    /\ last.op = "remove_liquidity"
    /\ last.returned
    /\ portfolio.lp_positions[last.user].lp_tokens_minted > 0
    /\ portfolio.total_lp_tokens < last.pre.total_lp_tokens

\* C9: for every successful swap against a pool whose two reserves are both
\* > 0, the product of the reserves after the swap is >= the product before.
C9_ProductNeverDecreases ==
    (/\ ExchangeDone
     /\ last.pre.xlm_in_pool > 0
     /\ last.pre.usdc_in_pool > 0)
    => portfolio.xlm_in_pool * portfolio.usdc_in_pool
          >= last.pre.xlm_in_pool * last.pre.usdc_in_pool

\* a swap went through against a funded pool and took something out of it
C9_Witness ==
    /\ SwapDone
    /\ last.pre.xlm_in_pool > 0
    /\ last.pre.usdc_in_pool > 0
    /\ last.ret > 0
    /\ portfolio.usdc_in_pool < last.pre.usdc_in_pool

\* C10: when total shares == 0, add_liquidity(a, b) with a, b > 0 mints
\* exactly s = floor(sqrt(a*b)) shares: s*s <= a*b < (s+1)*(s+1).
C10_FirstProviderGetsIsqrt ==
    (/\ last.op = "add_liquidity"
     /\ last.returned
     /\ last.pre.total_lp_tokens = 0)
    => /\ last.ret * last.ret <= last.amount * last.amount2
       /\ last.amount * last.amount2 < (last.ret + 1) * (last.ret + 1)

\* the last call was an add_liquidity that went through on a pool with shares
LaterDeposit ==
    /\ last.op = "add_liquidity"
    /\ last.returned
    /\ last.pre.total_lp_tokens > 0

\* C11: when total shares T > 0 and the reserves are (Ra, Rb),
\* add_liquidity(a, b) mints exactly min(floor(a*T/Ra), floor(b*T/Rb))
\* shares, so a deposit of k times the pool's amounts receives k times the
\* shares there are.
C11_ProportionalShares ==
    LaterDeposit =>
        /\ last.pre.xlm_in_pool > 0
        /\ last.pre.usdc_in_pool > 0
        /\ LET by_xlm == (last.amount * last.pre.total_lp_tokens) \div last.pre.xlm_in_pool
               by_usdc == (last.amount2 * last.pre.total_lp_tokens) \div last.pre.usdc_in_pool
           IN /\ last.ret = (IF by_xlm <= by_usdc THEN by_xlm ELSE by_usdc)
              /\ portfolio.total_lp_tokens = last.pre.total_lp_tokens + last.ret
        /\ \A k \in 1..MaxLpAmount :
              (/\ last.amount = k * last.pre.xlm_in_pool
               /\ last.amount2 = k * last.pre.usdc_in_pool)
              => last.ret = k * last.pre.total_lp_tokens

\* a second deposit whose two legs give different share counts
C11_Witness ==
    /\ LaterDeposit
    /\ (last.amount * last.pre.total_lp_tokens) \div last.pre.xlm_in_pool
          # (last.amount2 * last.pre.total_lp_tokens) \div last.pre.usdc_in_pool

\* the last call was an add_liquidity that went through on an empty pool
EmptyPoolDeposit ==
    /\ last.op = "add_liquidity"
    /\ last.returned
    /\ last.pre.total_lp_tokens = 0
    /\ last.pre.xlm_in_pool = 0
    /\ last.pre.usdc_in_pool = 0

\* this step is a remove_liquidity of all the shares the deposit before it minted
WithdrawsAllMinted ==
    /\ EmptyPoolDeposit
    /\ last'.op = "remove_liquidity"
    /\ last'.user = last.user
    /\ last'.amount = last.ret

\* C12: an account that deposits (a, b) into an empty pool and then
\* immediately removes all the shares minted receives (a, b) back, its
\* balances return to what they were before the deposit, and both reserves
\* and the total of shares return to 0.
C12_RoundTrip ==
    [][WithdrawsAllMinted =>
          /\ last'.returned
          /\ last'.ret = last.amount
          /\ last'.ret2 = last.amount2
          /\ balance_of(portfolio', XLM, last.user) = balance_of(last.pre, XLM, last.user)
          /\ balance_of(portfolio', USDCSIM, last.user)
                = balance_of(last.pre, USDCSIM, last.user)
          /\ portfolio'.xlm_in_pool = 0
          /\ portfolio'.usdc_in_pool = 0
          /\ portfolio'.total_lp_tokens = 0]_vars

\* the last call was a swap whose arguments are malformed
MalformedSwap ==
    /\ last.op = "swap"
    /\ \/ last.amount <= 0
       \/ last.from = last.to
       \/ last.from \notin {XLM, USDCSIM}
       \/ last.to \notin {XLM, USDCSIM}

FailedSwap ==
    /\ last.op = "swap"
    /\ ~MalformedSwap
    /\ ~last.returned

\* C14: a swap that fails at run time (funds short for the fee or for the
\* swapped amount, slippage above the configured maximum, a stale or invalid
\* oracle price) has no partial effect: a fee already charged is not kept,
\* and balances, reserves, fee counters, trading statistics and rate-limit
\* counters are what they were before the call.
C14_FailedSwapNoEffect ==
    FailedSwap =>
        /\ portfolio = last.pre
        /\ rate = last.pre_rate
        /\ last.ret = 0

\* the fee was charged (the account could pay it) and the swap then failed
C14_Witness ==
    /\ FailedSwap
    /\ last.err \in {"Oracle price is stale", "Oracle price is invalid", "Slippage exceeded"}
    /\ TruncDiv(last.amount * effective_fee_bps(get_user_tier(last.pre, last.user)),
                BPS_DENOM) > 0
    /\ balance_of(last.pre, last.from, last.user) >= last.amount

\* the last call was a well-formed swap by an account within its rate limit
\* that holds the amount
FundedSwap ==
    /\ last.op = "swap"
    /\ ~MalformedSwap
    /\ last.status.ok
    /\ balance_of(last.pre, last.from, last.user) >= last.amount

\* the quote stored for the pair of the last swap: the one stored for the
\* pair as given or, when there is none, the one stored for the reverse pair
QuoteOfSwap ==
    IF prices[<<last.from, last.to>>].set THEN prices[<<last.from, last.to>>]
    ELSE prices[<<last.to, last.from>>]

\* the price the quote of the last swap stands for
PriceOfSwap ==
    IF prices[<<last.from, last.to>>].set THEN QuoteOfSwap.price
    ELSE (PRECISION * PRECISION) \div QuoteOfSwap.price

\* what the last swap put in after the tier fee
AfterTierFee ==
    last.amount - (last.amount * effective_fee_bps(get_user_tier(last.pre, last.user)))
                     \div BPS_DENOM

NoPoolBefore == last.pre.xlm_in_pool = 0 /\ last.pre.usdc_in_pool = 0

\* C15: a swap on a pair whose stored quote (in either direction) has
\* now - timestamp > 600 fails instead of falling back to 1:1, while a quote
\* with now - timestamp = 600 is still accepted; only a pair with no stored
\* quote in either direction uses the 1:1 default.
C15_StaleQuoteFails ==
    (last.op = "swap" /\ ~MalformedSwap /\ QuoteOfSwap.set) =>
        /\ now - QuoteOfSwap.timestamp > STALE_THRESHOLD_SECONDS
              => /\ ~last.returned
                 /\ portfolio = last.pre
                 /\ FundedSwap => last.err = "Oracle price is stale"
        /\ now - QuoteOfSwap.timestamp <= STALE_THRESHOLD_SECONDS
              => /\ last.err # "Oracle price is stale"
                 /\ (FundedSwap /\ QuoteOfSwap.price = HalfPrice
                       /\ prices[<<last.from, last.to>>].set) => last.returned
                 /\ (last.returned /\ NoPoolBefore)
                       => last.ret = (AfterTierFee * PriceOfSwap) \div PRECISION

\* a swap one second past the threshold was refused as stale
C15_Witness ==
    /\ FundedSwap
    /\ QuoteOfSwap.set
    /\ now - QuoteOfSwap.timestamp = STALE_THRESHOLD_SECONDS + 1
    /\ last.err = "Oracle price is stale"

\* the last call was a funded swap with no pool and no quote in either direction
UnpricedSwap ==
    /\ FundedSwap
    /\ NoPoolBefore
    /\ ~prices[<<last.from, last.to>>].set
    /\ ~prices[<<last.to, last.from>>].set

C17_OraclePricedOutput ==
    (/\ FundedSwap
     /\ NoPoolBefore
     /\ prices[<<last.from, last.to>>].set
     /\ prices[<<last.from, last.to>>].price > 0
     /\ now - prices[<<last.from, last.to>>].timestamp <= STALE_THRESHOLD_SECONDS)
    => /\ last.returned
       /\ last.ret = (AfterTierFee * prices[<<last.from, last.to>>].price) \div PRECISION

\* C18: for a pool with reserves (1000, 1000) and the 0.3% fee, a swap of
\* 200 input units returns exactly 160 output units.
C18_TwoHundredReturns160 ==
    (/\ FundedSwap
     /\ last.pre.xlm_in_pool = 1000
     /\ last.pre.usdc_in_pool = 1000
     /\ last.amount = 200)
    => /\ last.returned
       /\ last.ret = 160

\* the reserves the last swap found, input side first
ReservesBefore ==
    IF last.from = XLM THEN <<last.pre.xlm_in_pool, last.pre.usdc_in_pool>>
    ELSE <<last.pre.usdc_in_pool, last.pre.xlm_in_pool>>

\* this step is a swap that goes through and repeats, in amount and
\* direction, the pool-priced swap that went through just before it
RepeatsSwap ==
    /\ SwapDone
    /\ last.pre.xlm_in_pool > 0
    /\ last.pre.usdc_in_pool > 0
    /\ last'.op = "swap"
    /\ last'.returned
    /\ last'.from = last.from
    /\ last'.to = last.to
    /\ last'.amount = last.amount

\* the tier fee of this step's swap is the one the swap before it paid
SameTierFee ==
    (last'.amount * effective_fee_bps(get_user_tier(last'.pre, last'.user))) \div BPS_DENOM
       = (last.amount * effective_fee_bps(get_user_tier(last.pre, last.user))) \div BPS_DENOM

\* the second of two equal swaps returns no more than the first, and less on
\* the pool (1000, 1000) with input 200
SecondNoBetter ==
    /\ last'.ret <= last.ret
    /\ (ReservesBefore = <<1000, 1000>> /\ last.amount = 200) => last'.ret < last.ret

\* C19 as stated: for a pool with both reserves > 0, when two swaps of the
\* same input amount in the same direction both succeed one after the
\* other, the second returns no more than the first, and strictly less for
\* reserves (1000, 1000) and input 200.
C19_SecondSwapNoBetter == [][RepeatsSwap => SecondNoBetter]_vars

\* C19 as amended: the same, for two swaps that are charged the same tier fee.
C19_SecondSwapNoBetterAtSameFee == [][(RepeatsSwap /\ SameTierFee) => SecondNoBetter]_vars

\* a second swap of 200 went through on what the first left of the pool (1000, 1000)
C19_Witness ==
    /\ SwapDone
    /\ last.from = XLM
    /\ last.amount = PoolSwap
    /\ last.pre.xlm_in_pool = PoolAmount + PoolSwap
    /\ last.pre.usdc_in_pool < PoolAmount
    /\ last.pre.trades[last.user] = 1
    /\ last.ret < (PoolAmount * PoolSwap) \div (PoolAmount + PoolSwap)

\* Novice < Trader < Expert < Whale
TierRank(tier) ==
    CASE tier = "Novice" -> 0
      [] tier = "Trader" -> 1
      [] tier = "Expert" -> 2
      [] tier = "Whale" -> 3

\* the last call asked for the tier of an account
TierAsked == last.op = "get_user_tier"

TierBefore ==
    LET c == last.pre.trades[last.user]
        v == last.pre.user_volumes[last.user]
    IN IF c >= 200 /\ v >= 10000 THEN "Whale"
       ELSE IF c >= 50 /\ v >= 1000 THEN "Expert"
       ELSE IF c >= 10 \/ v >= 100 THEN "Trader"
       ELSE "Novice"

\* floor(amount * bps / 10000) for the last call, at the rate of TierBefore
FeeOfSwap ==
    LET bps == CASE TierBefore = "Novice" -> 30
                 [] TierBefore = "Trader" -> 25
                 [] TierBefore = "Expert" -> 20
                 [] TierBefore = "Whale" -> 15
    IN (last.amount * bps) \div 10000

\* C21: the fee of a direct swap is floor(amount * bps / 10000), bps (Novice
\* 30, Trader 25, Expert 20, Whale 15) being the rate of the tier computed
\* from the account's trade count and volume before this swap; the fee
\* counter grows by exactly that fee, and a tier upgrade caused by the swap
\* lowers the fee only from the next swap on.
C21_FeeOfTierBefore ==
    SwapDone =>
        /\ portfolio.total_fees_collected = last.pre.total_fees_collected + FeeOfSwap
        /\ UnpricedSwap => last.ret = last.amount - FeeOfSwap
        /\ balance_of(portfolio, last.from, last.user)
              = balance_of(last.pre, last.from, last.user) - last.amount

\* a swap that lifted its account to a tier with a lower fee paid the fee of
\* the tier it came from
C21_Witness ==
    /\ SwapDone
    /\ TierBefore = "Novice"
    /\ get_user_tier(portfolio, last.user) = "Trader"
    /\ FeeOfSwap = 3
    /\ portfolio.total_fees_collected = last.pre.total_fees_collected + 3

\* the last call was a batch, in either mode
BatchCalled == last.op \in {"execute_batch_atomic", "execute_batch_best_effort"}

\* C22: a batch with more than 10 operations or with no operation is rejected
\* up front in both modes: no operation is executed, the stored state is
\* unchanged, and the returned report has operations_failed > 0 and
\* operations_executed = 0.
C22_BatchSizeRejected ==
    (BatchCalled /\ (Len(last.ops) > 10 \/ Len(last.ops) = 0)) =>
        /\ last.returned
        /\ portfolio = last.pre
        /\ rate = last.pre_rate
        /\ last.report.operations_failed > 0
        /\ last.report.operations_executed = 0
        /\ last.report.results = <<>>

\* a batch of eleven mints was turned away
C22_Witness ==
    /\ BatchCalled
    /\ Len(last.ops) = 11
    /\ \A i \in 1..11 : last.ops[i].kind = "MintToken" /\ last.ops[i].x > 0
    /\ last.returned
    /\ last.report.operations_failed = 1
    /\ balance_of(last.pre, XLM, "u1") > 0
    /\ balance_of(portfolio, XLM, "u1") = balance_of(last.pre, XLM, "u1")

\* the static shape validation turns away: a non-positive swap amount,
\* identical swap assets, an unrecognised token, a non-positive
\* add-liquidity amount, a negative mint amount
StaticallyInvalid(op) ==
    \/ op.kind = "Swap" /\ (op.x <= 0 \/ op.a = op.b \/ {op.a, op.b} \ {"XLM", "USDC-SIM"} # {})
    \/ op.kind = "AddLiquidity" /\ (op.x <= 0 \/ op.y <= 0)
    \/ op.kind = "MintToken" /\ (op.x < 0 \/ op.a \notin {"XLM", "USDC-SIM"})

\* C23: static validation of a whole batch precedes the execution of any of
\* its operations: if any operation of a batch, at any position and in
\* either mode, has a non-positive swap amount, identical swap assets, an
\* unrecognised token, a non-positive add-liquidity amount or a negative mint
\* amount, then no operation of the batch is executed, valid operations
\* placed before the invalid one included, and the state is unchanged.
C23_ValidationBeforeExecution ==
    (BatchCalled /\ \E i \in 1..Len(last.ops) : StaticallyInvalid(last.ops[i])) =>
        /\ portfolio = last.pre
        /\ rate = last.pre_rate
        /\ last.report.operations_executed = 0
        /\ last.report.results = <<>>

\* a batch whose first operation is a valid mint and whose second is
\* invalid left the balance alone
C23_Witness ==
    /\ BatchCalled
    /\ Len(last.ops) = 2
    /\ last.ops[1].kind = "MintToken"
    /\ ~StaticallyInvalid(last.ops[1])
    /\ StaticallyInvalid(last.ops[2])
    /\ last.returned
    /\ last.report.operations_failed = 1
    /\ balance_of(last.pre, XLM, "u1") > 0
    /\ balance_of(portfolio, XLM, "u1") = balance_of(last.pre, XLM, "u1")

\* the last call was one the rate limiter counts
QuotaCall == last.op \in {"swap", "safe_swap", "add_liquidity"}

\* the last call was accepted: it returned, and a safe_swap did not return
\* its 0 of failure
Accepted == last.returned /\ last.err = ""

\* the counter of the current window for the kind of the last call
QuotaKey ==
    IF last.op = "add_liquidity" THEN <<last.user, "lp_op", (now \div 86400) * 86400>>
    ELSE <<last.user, "swap", (now \div 3600) * 3600>>

\* the value of a counter, 0 when it has never been written
Used(counters, key) == IF key \in DOMAIN counters THEN counters[key] ELSE 0

\* C24: rate-limit quota is consumed only by accepted calls: a swap or
\* add_liquidity call that fails for any reason (validation, insufficient
\* funds, stale price, slippage, or the rate limit itself) leaves the
\* account's rate-limit counters unchanged, and an accepted call increases
\* the counter of the current window by exactly 1.
C24_QuotaOnlyWhenAccepted ==
    QuotaCall =>
        /\ ~Accepted => rate = last.pre_rate
        /\ Accepted =>
              /\ Used(rate, QuotaKey) = Used(last.pre_rate, QuotaKey) + 1
              /\ \A key \in (DOMAIN rate \cup DOMAIN last.pre_rate) \ {QuotaKey} :
                    Used(rate, key) = Used(last.pre_rate, key)

\* the sixth swap of the hour was refused by the rate limit and counted nothing
C24_Witness ==
    /\ last.op = "swap"
    /\ last.err = "RATELIMIT"
    /\ Used(last.pre_rate, QuotaKey) = 5
    /\ Used(rate, QuotaKey) = 5

\* the last call was a batch of two operations that pass validation, the
\* second a swap
TwoStepBatch ==
    /\ BatchCalled
    /\ Len(last.ops) = 2
    /\ ~StaticallyInvalid(last.ops[1])
    /\ ~StaticallyInvalid(last.ops[2])
    /\ last.ops[2].kind = "Swap"

\* the swap of the batch is funded only by the mint before it
FundedByMint ==
    /\ TwoStepBatch
    /\ last.ops[1].kind = "MintToken"
    /\ last.ops[1].a = last.ops[2].a
    /\ last.ops[1].user = last.ops[2].user
    /\ balance_of(last.pre, last.ops[2].a, last.ops[2].user) < last.ops[2].x
    /\ balance_of(last.pre, last.ops[2].a, last.ops[2].user) + last.ops[1].x >= last.ops[2].x

\* the swap of the batch needs what the swap before it spends
SpentBySwap ==
    /\ TwoStepBatch
    /\ last.ops[1].kind = "Swap"
    /\ last.ops[1].a = last.ops[2].a
    /\ last.ops[1].user = last.ops[2].user
    /\ balance_of(last.pre, last.ops[1].a, last.ops[1].user) >= last.ops[1].x
    /\ balance_of(last.pre, last.ops[1].a, last.ops[1].user) - last.ops[1].x < last.ops[2].x

\* C25: within one batch the effects of an earlier successfully applied
\* operation are visible to every later operation: a swap whose account has
\* sufficient funds only because of a mint (or swap) earlier in the same
\* batch succeeds, and a swap whose funds were spent by an earlier operation
\* of the same batch fails.
C25_EarlierEffectsVisible ==
    /\ FundedByMint =>
          /\ last.returned
          /\ Len(last.report.results) = 2
          /\ last.report.results[2].ok
    /\ SpentBySwap =>
          /\ last.returned
          /\ last.report.operations_failed > 0

(* ------------------------- pause and freeze ---------------------------- *)

MaxEmergencySteps == 5

NextEmergency ==
    \/ Bounded(MaxEmergencySteps) /\ SetAdmin("u2")
    \/ Bounded(MaxEmergencySteps) /\ \E admin \in Users : Pause(admin)
    \/ Bounded(MaxEmergencySteps) /\ \E admin \in Users : Unpause(admin)
    \/ Bounded(MaxEmergencySteps) /\ \E admin \in Users : FreezeUser(admin, "u1")
    \/ Bounded(MaxEmergencySteps) /\ \E admin \in Users : UnfreezeUser(admin, "u1")
    \/ Bounded(MaxEmergencySteps) /\ Mint(XLM, "u1", MintAmount)
    \/ Bounded(MaxEmergencySteps) /\ Swap(XLM, USDCSIM, SwapAmount, "u1")

SpecEmergency == Init /\ [][NextEmergency]_vars

\* the swap was asked for while the contract was paused or its caller frozen
GatedSwap ==
    /\ last.op = "swap"
    /\ is_paused(emergency) \/ is_frozen(emergency, last.user)

\* C26: while the system is paused, or while the calling account is frozen, every
\* swap fails before any ledger mutation: balances, reserves and counters are as
\* they were before the call
C26_PausedSwapFails ==
    GatedSwap =>
        /\ ~last.returned
        /\ portfolio = last.pre
        /\ rate = last.pre_rate
(* ------------------------------ safe_swap ------------------------------ *)

MaxSafeSteps == 7
SafeAmounts == {0 - QuotaSwap, 0, QuotaSwap, BigAmount}

NextSafe ==
    \/ Bounded(MaxSafeSteps) /\ Mint(XLM, "u1", MintAmount)
    \/ Bounded(MaxSafeSteps) /\ \E to \in Tokens, amount \in SafeAmounts :
                                    SafeSwap(XLM, to, amount, "u1")

SpecSafe == Init /\ [][NextSafe]_vars

\* a safe_swap that the contract has to turn down: identical tokens, a token
\* it does not trade, a non-positive amount, too small a balance, or no quota left
RefusedSafeSwap ==
    /\ last.op = "safe_swap"
    /\ \/ last.from = last.to
       \/ last.from \notin {XLM, USDCSIM}
       \/ last.to \notin {XLM, USDCSIM}
       \/ last.amount <= 0
       \/ balance_of(last.pre, last.from, last.user) < last.amount
       \/ ~check_swap_limit(last.pre_rate, last.pre_now, last.user,
                            get_user_tier(last.pre, last.user)).ok

\* C27: safe_swap never aborts: for identical tokens, an unsupported token, a
\* non-positive amount, an insufficient balance or an exceeded rate limit it returns
\* 0, adds exactly 1 to failed_orders and leaves every balance and trades_executed
\* as they were
C27_SafeSwapNeverAborts ==
    RefusedSafeSwap =>
        /\ last.returned
        /\ last.ret = 0
        /\ portfolio.failed_orders = last.pre.failed_orders + 1
        /\ portfolio.balances = last.pre.balances
        /\ portfolio.trades_executed = last.pre.trades_executed
(* --------------------- refused withdrawals of liquidity ---------------- *)

\* the account asked to burn shares it does not hold: it has no position, or
\* fewer shares than it asked for
OverdrawnShares ==
    /\ last.op = "remove_liquidity"
    /\ \/ ~last.pre.lp_positions[last.user].present
       \/ last.pre.lp_positions[last.user].lp_tokens_minted < last.amount

\* C28: remove_liquidity(shares, account) is rejected when the account has no LP
\* position or holds fewer shares than it asks to burn, and the rejection leaves
\* balances, reserves, the position and the total of shares as they were
C28_OverdrawnSharesRejected ==
    OverdrawnShares =>
        /\ ~last.returned
        /\ portfolio.balances = last.pre.balances
        /\ portfolio.xlm_in_pool = last.pre.xlm_in_pool
        /\ portfolio.usdc_in_pool = last.pre.usdc_in_pool
        /\ portfolio.lp_positions = last.pre.lp_positions
        /\ portfolio.total_lp_tokens = last.pre.total_lp_tokens

\* an account that holds shares asked for more than it holds, and was refused
C28_Witness ==
    /\ OverdrawnShares
    /\ last.pre.lp_positions[last.user].present
    /\ last.pre.lp_positions[last.user].lp_tokens_minted > 0
    /\ last.err = "Insufficient LP tokens"
    /\ ~last.returned
(* ------------------- one swap: batch and direct call ------------------- *)

\* what a batch holding only the swap of the last call returns from the state
\* that call started in
SameSwapAsBatch ==
    CounterContract_execute_batch_atomic(last.pre, last.pre_rate, prices, max_slip,
                                         last.pre_now,
                                         <<OpSwap(last.from, last.to, last.amount, last.user)>>)

\* C29: a batch that contains exactly one Swap behaves as the direct swap call with
\* the same arguments from the same state: it succeeds under the same conditions,
\* reports Success with the same returned amount, and leaves the same balances
C29_SingleSwapBatchAsDirect ==
    last.op = "swap" =>
        Let(SameSwapAsBatch, LAMBDA b :
            /\ last.returned <=> (b.returned /\ b.report.operations_executed = 1)
            /\ last.returned =>
                  /\ b.report.results = <<Success(last.ret)>>
                  /\ b.p.balances = portfolio.balances)
(* -------------------------- rate-limit windows ------------------------- *)

MaxWindowSteps == 8
EarlierDeposits == 9
MaxClock == 90000
ClockSteps == {HalfHour, HOUR, DAY - HOUR}

\* the ledger clock moves on by half an hour, an hour or most of a day
Advance(dt) ==
    /\ now + dt <= MaxClock
    /\ now' = now + dt
    /\ UNCHANGED <<portfolio, rate, prices, max_slip, emergency>>
    /\ last' = Quiet("tick", "", dt)

NextWindow ==
    \/ Bounded(MaxWindowSteps) /\ \E token \in {XLM, USDCSIM} : Mint(token, "u1", MintAmount)
    \/ Bounded(MaxWindowSteps) /\ Swap(XLM, USDCSIM, QuotaSwap, "u1")
    \/ Bounded(MaxWindowSteps) /\ AddLiquidity(QuotaSwap, QuotaSwap, "u1")
    \/ Bounded(MaxWindowSteps) /\ \E dt \in ClockSteps : Advance(dt)

\* the contract after u1 minted both assets and deposited n times at time 0
RECURSIVE DepositedBefore(_)
DepositedBefore(n) ==
    IF n = 0
    THEN CallOut(TRUE, "",
                 mint(mint(Portfolio_new, XLM, "u1", MintAmount).p,
                      USDCSIM, "u1", MintAmount).p,
                 <<>>, 0, 0, LimitOk, BatchResult_new)
    ELSE Let(DepositedBefore(n - 1), LAMBDA before :
             CounterContract_add_liquidity(before.p, before.rate, 0,
                                           QuotaSwap, QuotaSwap, "u1"))

\* a fresh contract, or one whose first account has deposited nine times today
InitWindow ==
    /\ \E out \in {CallOut(TRUE, "", Portfolio_new, <<>>, 0, 0, LimitOk, BatchResult_new),
                    DepositedBefore(EarlierDeposits)} :
          /\ out.returned
          /\ portfolio = out.p
          /\ rate = out.rate
    /\ prices = [pair \in Tokens \X Tokens |-> NoPrice]
    /\ max_slip = DEFAULT_MAX_SLIP
    /\ now = 0
    /\ steps = 0
    /\ emergency = Emergency_new
    /\ last = LastOf("init", "", "", "", 0, 0, <<>>,
                     CallOut(TRUE, "", Portfolio_new, <<>>, 0, 0, LimitOk, BatchResult_new))

SpecWindow == InitWindow /\ [][NextWindow]_vars

\* the counters without those recorded in windows that began before the
\* hourly (swap) or daily (lp_op) window of timestamp t
WithoutEarlierWindows(r, t) ==
    [key \in {k \in DOMAIN r :
                 k[3] >= (IF k[2] = "swap" THEN TimeWindow_hourly(t).window_start
                          ELSE TimeWindow_daily(t).window_start)} |-> r[key]]

\* the window contains its timestamp and starts on a multiple of its duration
WindowHolds(window, t, duration) ==
    /\ window.window_duration = duration
    /\ window.window_start % duration = 0
    /\ window.window_start <= t
    /\ t < window.window_start + duration
    /\ t % duration = 0 => window.window_start = t

MaxIndepSteps == 8

NextIndep ==
    \/ Bounded(MaxIndepSteps) /\ \E u \in Users : Mint(XLM, u, MintAmount)
    \/ Bounded(MaxIndepSteps) /\ Mint(USDCSIM, "u1", MintAmount)
    \/ Bounded(MaxIndepSteps) /\ \E u \in Users : Swap(XLM, USDCSIM, QuotaSwap, u)
    \/ Bounded(MaxIndepSteps) /\ AddLiquidity(QuotaSwap, QuotaSwap, "u1")
    \/ Bounded(MaxIndepSteps) /\ RemoveLiquidity(1, "u1")

SpecIndep == Init /\ [][NextIndep]_vars

\* the last call was one that the rate limiter counts
CountedCall == last.op \in {"swap", "safe_swap", "add_liquidity", "remove_liquidity"}

\* both checks of an account give the same result with either set of counters
SameSwapCheck(r1, r2, u) ==
    \A tier \in Tiers : check_swap_limit(r1, now, u, tier) = check_swap_limit(r2, now, u, tier)

SameLpCheck(r1, r2, u) ==
    \A tier \in Tiers : check_lp_limit(r1, now, u, tier) = check_lp_limit(r2, now, u, tier)

\* C31: rate-limit counters are independent per account and per operation class:
\* what a call records for one account never changes a check of another account,
\* a recorded swap never changes the LP check of the same account, and a recorded
\* LP operation never changes its swap check
C31_CountersIndependent ==
    CountedCall =>
        /\ \A u \in Users \ {last.user} :
              /\ SameSwapCheck(rate, last.pre_rate, u)
              /\ SameLpCheck(rate, last.pre_rate, u)
              /\ \A k \in DOMAIN rate : k[1] = u => CounterGet(last.pre_rate, k) = rate[k]
        /\ last.op \in {"swap", "safe_swap"} => SameLpCheck(rate, last.pre_rate, last.user)
        /\ last.op \in {"add_liquidity", "remove_liquidity"} =>
              SameSwapCheck(rate, last.pre_rate, last.user)

\* the second account swapped although the first had used up its hour
C31_Witness ==
    /\ last.op = "swap"
    /\ last.user = "u2"
    /\ last.returned
    /\ rate # last.pre_rate
    /\ ~check_swap_limit(rate, now, "u1", "Novice").ok
    /\ check_swap_limit(rate, now, "u2", "Novice").ok
(* --------------------- best-effort batches at run time ----------------- *)

\* a best-effort batch that static validation lets through
ValidBestEffort ==
    /\ last.op = "execute_batch_best_effort"
    /\ validate_batch(last.ops) = ""

\* C32: for a best-effort batch that passes static validation every run-time
\* failure of an operation is recorded as that operation's error entry and the
\* operations after it are still executed: the call returns a report with exactly
\* one entry per operation, and operations_executed + operations_failed is the
\* number of operations
C32_BestEffortRecordsFailures ==
    ValidBestEffort =>
        /\ last.returned
        /\ Len(last.report.results) = Len(last.ops)
        /\ last.report.operations_executed + last.report.operations_failed = Len(last.ops)
(* ----------------------------- stored tier ----------------------------- *)

\* C33: in every reachable state the stored tier of every account is the tier of
\* its trade count and volume (an absent entry counting as Novice): every
\* operation that changes a trade count or a volume also refreshes the stored tier
C33_StoredTierCurrent ==
    (last.op \in {"swap", "safe_swap", "record_trade", "execute_batch_atomic",
                  "execute_batch_best_effort"} /\ last.returned) =>
        \A u \in Users :
            portfolio.tiers[u]
                = calculate_user_tier(portfolio.trades[u], portfolio.user_volumes[u])
(* ------------------------- swaps of no yield --------------------------- *)

\* what the pool pays for the last swap, from the reserves before it: the
\* constant product on what the tier fee and then the pool fee leave of the amount
FlooredOutput ==
    LET net == last.amount - FeeOfSwap
        after_fee == (net * 9970) \div 10000
    IN (ReservesBefore[2] * after_fee) \div (ReservesBefore[1] + after_fee)

\* a well-formed, funded swap against a pool, of which flooring leaves nothing
ZeroYieldSwap ==
    /\ FundedSwap
    /\ last.pre.xlm_in_pool > 0
    /\ last.pre.usdc_in_pool > 0
    /\ FlooredOutput = 0

MaxReserveSteps == 4
ReserveAmounts == {0 - PoolAmount, 0, PoolAmount}

NextReserve ==
    \/ Bounded(MaxReserveSteps) /\ \E token \in {XLM, USDCSIM} : Mint(token, "u1", MintAmount)
    \/ Bounded(MaxReserveSteps) /\ \E token \in {XLM, USDCSIM}, amount \in ReserveAmounts :
                                       SetPoolLiquidity(token, amount)
    \/ Bounded(MaxReserveSteps) /\ \E pair \in Pairs : Swap(pair[1], pair[2], SwapAmount, "u1")
    \/ Bounded(MaxReserveSteps) /\ AddLiquidity(SwapAmount, SwapAmount, "u1")
    \/ Bounded(MaxReserveSteps) /\ RemoveLiquidity(SwapAmount, "u1")

SpecReserve == Init /\ [][NextReserve]_vars

\* C35: both pool reserves are >= 0 in every state reachable through mint, swap,
\* add_liquidity, remove_liquidity, set_pool_liquidity and the batch entry points
C35_ReservesNonNegative ==
    /\ portfolio.xlm_in_pool >= 0
    /\ portfolio.usdc_in_pool >= 0
(* ------------------- the swap quota and the batches -------------------- *)

MaxBypassSteps == 8

\* batches of swaps, in the spelling of either module
BypassBatches ==
    {<<OpSwap(XLM, USDC_SIM, QuotaSwap, "u1")>>,
     <<OpSwap(XLM, USDCSIM, QuotaSwap, "u1")>>,
     <<OpSwap(XLM, USDC_SIM, QuotaSwap, "u1"), OpSwap(XLM, USDC_SIM, QuotaSwap, "u1")>>}

NextBypass ==
    \/ Bounded(MaxBypassSteps) /\ Mint(XLM, "u1", MintAmount)
    \/ Bounded(MaxBypassSteps) /\ Swap(XLM, USDCSIM, QuotaSwap, "u1")
    \/ Bounded(MaxBypassSteps) /\ SafeSwap(XLM, USDCSIM, QuotaSwap, "u1")
    \/ Bounded(MaxBypassSteps) /\ \E operations \in BypassBatches :
                                      ExecuteBatchAtomic(operations)
    \/ Bounded(MaxBypassSteps) /\ \E operations \in BypassBatches :
                                      ExecuteBatchBestEffort(operations)
    \/ Bounded(MaxBypassSteps) /\ Tick(HOUR)

SpecBypass == Init /\ [][NextBypass]_vars

\* the swap counters of an account, one per hour-window
SwapKeys(u) == {k \in DOMAIN rate : k[1] = u /\ k[2] = "swap"}

MaxLpQuotaSteps == 5

NextLpQuota ==
    \/ Bounded(MaxLpQuotaSteps) /\ \E token \in {XLM, USDCSIM} : Mint(token, "u1", MintAmount)
    \/ Bounded(MaxLpQuotaSteps) /\ AddLiquidity(QuotaSwap, QuotaSwap, "u1")
    \/ Bounded(MaxLpQuotaSteps) /\ \E shares \in {1, QuotaSwap} : RemoveLiquidity(shares, "u1")

SpecLpQuota == InitWindow /\ [][NextLpQuota]_vars

\* the LP operations the account of the last call had recorded in the day of
\* the call
LpUsedBefore ==
    CounterGet(last.pre_rate, <<last.user, "lp_op", (last.pre_now \div 86400) * 86400>>)

\* C37: the LP quota covers both LP operations: an account at Novice tier cannot
\* complete more than 10 LP operations (add_liquidity and remove_liquidity counted
\* together) within one day-window; the 11th, whether a deposit or a withdrawal,
\* is rejected
C37_LpQuotaCoversBoth ==
    (/\ last.op \in {"add_liquidity", "remove_liquidity"}
     /\ get_user_tier(last.pre, last.user) = "Novice"
     /\ LpUsedBefore >= 10) =>
        /\ ~last.returned
        /\ portfolio = last.pre
        /\ rate = last.pre_rate
(* ------------------------- swap and safe_swap -------------------------- *)

\* what safe_swap returns for the arguments of the last call from the state
\* that call started in
SameSwapAsSafe ==
    CounterContract_safe_swap(last.pre, last.pre_rate, prices, max_slip, last.pre_now,
                              last.from, last.to, last.amount, last.user)

\* C38: on inputs for which both succeed, safe_swap and swap started from the same
\* state return the same amount and end in the same balances and fee counters:
\* safe_swap debits the account the full input amount, fee included
C38_SafeSwapAsSwap ==
    /\ SwapDone =>
          Let(SameSwapAsSafe, LAMBDA safe :
              (safe.returned /\ safe.err = "") =>
                  /\ safe.ret = last.ret
                  /\ safe.p.balances = portfolio.balances
                  /\ safe.p.total_fees_collected = portfolio.total_fees_collected
                  /\ safe.p.lp_fees_accumulated = portfolio.lp_fees_accumulated)
    /\ (last.op = "safe_swap" /\ last.returned /\ last.err = "") =>
          balance_of(portfolio, last.from, last.user)
              = balance_of(last.pre, last.from, last.user) - last.amount
(* ----------------------- LP operations in a batch ---------------------- *)

MaxBatchLpSteps == 4

\* batches of one LP operation
LpBatches ==
    {<<OpAddLiquidity(SwapAmount, SwapAmount, "u1")>>,
     <<OpRemoveLiquidity(SwapAmount, SwapAmount, "u1")>>,
     <<OpRemoveLiquidity(SwapAmount, 0, "u2")>>}

NextBatchLp ==
    \/ Bounded(MaxBatchLpSteps) /\ \E token \in Tokens : Mint(token, "u1", MintAmount)
    \/ Bounded(MaxBatchLpSteps) /\ AddLiquidity(SwapAmount, SwapAmount, "u1")
    \/ Bounded(MaxBatchLpSteps) /\ \E operations \in LpBatches : ExecuteBatchAtomic(operations)
    \/ Bounded(MaxBatchLpSteps) /\ \E operations \in LpBatches :
                                       ExecuteBatchBestEffort(operations)

SpecBatchLp == Init /\ [][NextBatchLp]_vars

\* the last call was a batch of the one operation of this kind, and executed it
OneExecuted(kind) ==
    /\ BatchCalled
    /\ Len(last.ops) = 1
    /\ last.ops[1].kind = kind
    /\ last.returned
    /\ last.report.operations_executed = 1

\* what an account holds of the second asset, under either spelling
UsdcOf(p, user) == balance_of(p, USDCSIM, user) + balance_of(p, USDC_SIM, user)

\* C39: an AddLiquidity operation executed inside a batch has the ledger effect
\* of the direct add_liquidity call: it debits the account's two asset balances
\* by the deposited amounts, increases the reserves by the same amounts, and
\* increases the account's position and the total of shares by the minted shares
C39_BatchDepositAsDirect ==
    OneExecuted("AddLiquidity") =>
        LET op == last.ops[1]
            minted == portfolio.total_lp_tokens - last.pre.total_lp_tokens
        IN /\ balance_of(portfolio, XLM, op.user) = balance_of(last.pre, XLM, op.user) - op.x
           /\ UsdcOf(portfolio, op.user) = UsdcOf(last.pre, op.user) - op.y
           /\ portfolio.xlm_in_pool = last.pre.xlm_in_pool + op.x
           /\ portfolio.usdc_in_pool = last.pre.usdc_in_pool + op.y
           /\ minted > 0
           /\ portfolio.lp_positions[op.user].lp_tokens_minted
                 = last.pre.lp_positions[op.user].lp_tokens_minted + minted

\* C40: a RemoveLiquidity operation executed inside a batch cannot create value:
\* it fails for an account that holds no LP shares, and when it succeeds the
\* amounts credited to the account are taken out of the pool reserves and are
\* covered by the account's LP position
C40_BatchWithdrawalCovered ==
    (BatchCalled /\ Len(last.ops) = 1 /\ last.ops[1].kind = "RemoveLiquidity") =>
        LET op == last.ops[1]
            position == last.pre.lp_positions[op.user]
        IN /\ position.lp_tokens_minted = 0 =>
                 /\ ~(last.returned /\ last.report.operations_executed = 1)
                 /\ portfolio = last.pre
           /\ OneExecuted("RemoveLiquidity") =>
                 /\ portfolio.xlm_in_pool = last.pre.xlm_in_pool - op.x
                 /\ portfolio.usdc_in_pool = last.pre.usdc_in_pool - op.y
                 /\ op.x <= position.xlm_deposited
                 /\ op.y <= position.usdc_deposited
====
